---- MODULE Spec2Model ----
(***************************************************************************)
(* A model of the injury/depth-chart aggregator's scraping code:           *)
(*   - depth_chart_scraper.DepthChartParser (label/anchor pairing),        *)
(*   - depth_chart_scraper.DepthChartScraper.scrape_depth_chart            *)
(*     (parse, zero-team check, slug de-duplication, validation),          *)
(*   - depth_chart_scraper.DepthChartScraper.fetch_html (URL whitelist,    *)
(*     connection gate, retry loop),                                       *)
(*   - web_scraper.DepthChartParser (team/position/player heuristic),      *)
(*   - web_scraper.InjuryReportParser (injury records),                    *)
(*   - the retry loops of DepthChartScraper.fetch_html,                     *)
(*     WebScraper.fetch_html and RSSFeedHandler.fetch_feed, and the         *)
(*     _rate_limit of the two scrapers, over a clock in seconds,            *)
(*   - news_aggregator.RSSFeedHandler.get_feed_items (feed cache),          *)
(*   - web_scraper.WebScraper.fetch_depth_chart (depth chart cache),        *)
(*   - email_delivery.EmailDelivery.send_email (SMTP session).              *)
(*                                                                         *)
(* config.WEB_SCRAPING_CONFIG and config.DEPTH_CHART_CONFIG are read by     *)
(* web_scraper.py but not defined in config.py: their values are assumed.   *)
(*                                                                         *)
(* Python strings are sequences of one-character strings, so that strip(), *)
(* the substring test `x in s` and re.search are computed, not assumed.    *)
(* An Optional value is a sequence of length 0 (None) or 1.                *)
(***************************************************************************)
EXTENDS Integers, Sequences, FiniteSets, TLC

VARIABLES
    \* ---- depth_chart_scraper.scrape_depth_chart, one call at a time ----
    phase,      \* "idle" | "parsing" | "done": position inside scrape_depth_chart
    html,       \* html_content: "unset", or what fetch_html returned
    parser,     \* the DepthChartParser object of the current call
    nfed,       \* number of parser events consumed by parser.feed so far
    log,        \* diagnostics logged by the current call, by kind
    result,     \* the list returned by the call
    outcome,    \* "none" | "returned" | "raised": how the call ended
    src,        \* the fetched markup when it is fixed in advance (SpecTwice)
    run,        \* ordinal of the current call on this scraper instance
    result1,    \* what the first call returned
    \* ---- history of the input, in the vocabulary of the specification ----
    awaiting,   \* a label container was opened and its text is still expected
    unpaired,   \* label texts buffered since the last matching anchor
    lastSlug,   \* identifier of the last matching anchor
    broke,      \* the event source or a callback failed on the last event
    lastKind,   \* what the last event was: "anchor" (a matching anchor),
                \* "label" (a label text met while awaiting), "stray" (a text
                \* that is not blank, met while not awaiting), "blank", "open"
                \* (a label container opens), "close" (a div closes), "other",
                \* or "none" before any event
    captured,   \* number of label texts met while awaiting, so far
    anchors,    \* number of matching anchors met so far
    sinceOpen,  \* label texts captured since the last label container opened
    \* ---- web_scraper.DepthChartParser ----
    wparser,    \* the parser object
    wfed,       \* the events fed to it so far
    \* ---- web_scraper.InjuryReportParser ----
    iparser,    \* the parser object
    ifed,       \* number of events fed to it so far
    ilast,      \* the last event fed to it
    \* ---- depth_chart_scraper.fetch_html ----
    fpc,        \* position inside fetch_html
    furl,       \* the url argument
    calls,      \* the calls made so far: "verify_url", "verify_connection", "urlopen"
    retries,    \* the local variable retries
    sleeps,     \* number of retry delays slept
    conn,       \* what the connection check met ("unset" before it)
    met,        \* what each urlopen attempt met, in order
    fresult,    \* the value returned: None or the content
    \* ---- the fetching instance and its clock ----
    fetcher,    \* the class of the instance whose fetch loop runs
    ncalls,     \* number of fetch calls made on the instance
    now,        \* time.time(), in seconds
    last_request_time,  \* the attribute of the two scrapers
    limited,    \* history of _rate_limit: returns so far (up to 2), times of the
                \* last return and of the one before, seconds the last call slept
    \* ---- news_aggregator.RSSFeedHandler.get_feed_items ----
    feeds_cache,        \* url -> cache entry
    last_fetch_times,   \* url -> time of the last successful fetch
    gpc,        \* position inside get_feed_items
    gcfg,       \* the feed_config argument
    gtime,      \* the local current_time
    gresult,    \* the list returned
    gfetches,   \* number of fetch_feed calls made by the current call
    ghist,      \* history of the calls: what held when the current call started,
                \* what the previous call did, what body the fetch returned,
                \* which calls fetched successfully
    \* ---- web_scraper.WebScraper.fetch_depth_chart ----
    depth_chart_cache,
    depth_chart_cache_time,
    cpc,        \* position inside fetch_depth_chart
    ctime,      \* the local current_time
    cresult,    \* the mapping returned
    cbefore,    \* cache and timestamp when the current call started
    cfetches,   \* number of fetch_html calls made by the current call
    \* ---- email_delivery.EmailDelivery.send_email ----
    econfig,    \* config.EMAIL_CONFIG
    epc,        \* position inside send_email
    smtp,       \* the SMTP calls made so far, in order
    eresult     \* the value returned

vars == <<phase, html, parser, nfed, log, result, outcome, src, run, result1,
          awaiting, unpaired, lastSlug, broke, lastKind, captured, anchors,
          sinceOpen, wparser, wfed, iparser, ifed, ilast,
          fpc, furl, calls, retries, sleeps, conn, met, fresult,
          fetcher, ncalls, now, last_request_time, limited,
          feeds_cache, last_fetch_times, gpc, gcfg, gtime, gresult, gfetches, ghist,
          depth_chart_cache, depth_chart_cache_time, cpc, ctime, cresult, cbefore,
          cfetches, econfig, epc, smtp, eresult>>

scrapeVars == <<phase, html, parser, nfed, log, result, outcome, src, run, result1,
                awaiting, unpaired, lastSlug, broke, lastKind, captured, anchors,
                sinceOpen>>
webVars == <<wparser, wfed, iparser, ifed, ilast>>
fetchVars == <<fpc, furl, calls, retries, sleeps, conn, met, fresult>>
clockVars == <<fetcher, ncalls, now, last_request_time, limited>>
feedVars == <<feeds_cache, last_fetch_times, gpc, gcfg, gtime, gresult, gfetches, ghist>>
chartVars == <<depth_chart_cache, depth_chart_cache_time, cpc, ctime, cresult, cbefore,
               cfetches>>
mailVars == <<econfig, epc, smtp, eresult>>
auxVars == <<feedVars, chartVars, mailVars>>

(***************************************************************************)
(* Bounds of the model.                                                    *)
(***************************************************************************)
MaxEvents == 9
MaxDocLen == 3
MaxWebEvents == 5
MaxInjuryEvents == 8
MaxLag == 1
MaxFetchCalls == 2
MaxGets == 2
MaxChartCalls == 2
MaxElapsed == 3
StartTime == 10

(***************************************************************************)
(* Python values.                                                          *)
(***************************************************************************)
None == <<>>
Some(x) == <<x>>
\* bool(x) of an Optional[str]: None and "" are falsy
Truthy(o) == o # None /\ o[1] # <<>>

\* dict.get(k, default)
DictGetOr(d, k, default) == IF k \in DOMAIN d THEN d[k] ELSE default

\* d[k] = v
DictSet(d, k, v) == [x \in DOMAIN d \cup {k} |-> IF x = k THEN v ELSE d[x]]

\* a dict is true when it has a key
DictTruthy(d) == DOMAIN d # {}

IsSpace(c) == c \in {" ", "\t", "\n"}

RECURSIVE LStrip(_)
LStrip(s) == IF s # <<>> /\ IsSpace(Head(s)) THEN LStrip(Tail(s)) ELSE s

RECURSIVE RStrip(_)
RStrip(s) ==
    IF s # <<>> /\ IsSpace(s[Len(s)]) THEN RStrip(SubSeq(s, 1, Len(s) - 1)) ELSE s

\* str.lstrip() in the place of str.strip()
StripLeftOnly(s) == LStrip(s)

\* str.strip()
Strip(s) == RStrip(LStrip(s))

\* needle in hay
Contains(hay, needle) ==
    \E i \in 1..(Len(hay) - Len(needle) + 1) :
        SubSeq(hay, i, i + Len(needle) - 1) = needle

\* the longest run of characters other than '&' starting at position i
RECURSIVE RunNotAmp(_, _)
RunNotAmp(s, i) ==
    IF i <= Len(s) /\ s[i] # "&" THEN <<s[i]>> \o RunNotAmp(s, i + 1) ELSE <<>>

\* re.search(r's=([^&]*)', href): the variant that accepts an empty group
SlugMatchStar(href) ==
    LET at == {i \in 1..(Len(href) - 1) : href[i] = "s" /\ href[i + 1] = "="}
    IN  IF at = {} THEN None
        ELSE LET i == CHOOSE k \in at : \A m \in at : k <= m
             IN  Some(RunNotAmp(href, i + 2))

\* re.search(r's=([^&]+)', href): group 1 of the leftmost match, or None
SlugMatch(href) ==
    LET at == {i \in 1..(Len(href) - 2) :
                  href[i] = "s" /\ href[i + 1] = "=" /\ href[i + 2] # "&"}
    IN  IF at = {} THEN None
        ELSE LET i == CHOOSE k \in at : \A m \in at : k <= m
             IN  Some(RunNotAmp(href, i + 2))

\* 'k' in dict(attrs)
DictHas(attrs, k) == \E i \in 1..Len(attrs) : attrs[i][1] = k

\* dict(attrs)[k]: the last pair with key k wins
DictGet(attrs, k) ==
    LET at == {i \in 1..Len(attrs) : attrs[i][1] = k}
        i == CHOOSE m \in at : \A n \in at : n <= m
    IN  attrs[i][2]

(***************************************************************************)
(* String literals of depth_chart_scraper.py.                              *)
(***************************************************************************)
StrDepthChartAspx ==
    <<"d","e","p","t","h","-","c","h","a","r","t",".","a","s","p","x">>
StrSEq == <<"s","=">>
StrTeamName == <<"t","e","a","m","-","n","a","m","e">>
StrMmTeamName == <<"m","m","-">> \o StrTeamName

(***************************************************************************)
(* depth_chart_scraper.DepthChartParser                                    *)
(***************************************************************************)
NoParser == [teams |-> <<>>, current_link |-> None,
             pending_team_name |-> None, in_team_name |-> FALSE]

\* a parser object that is reused without being reset
NewParserStale == [parser EXCEPT !.teams = <<>>]

\* DepthChartParser.__init__ (tag_count, text_count and debug only feed log
\* messages and are not modelled)
NewParser == NoParser

\* an anchor branch that starts the list of teams afresh with each pairing
AnchorBranchRestartsTeams(p, href) ==
    IF Contains(href, StrDepthChartAspx) /\ Contains(href, StrSEq)
    THEN LET match == SlugMatch(href)
         IN  IF match # None
             THEN LET p1 == [p EXCEPT !.current_link = Some(match[1])]
                  IN  IF Truthy(p1.pending_team_name)
                      THEN [p1 EXCEPT
                              !.teams = <<[team |-> p1.pending_team_name[1],
                                           slug |-> p1.current_link[1]]>>,
                              !.pending_team_name = None]
                      ELSE p1
             ELSE p
    ELSE p

\* an anchor branch that pairs the pending name and keeps it
AnchorBranchKeepsPending(p, href) ==
    IF Contains(href, StrDepthChartAspx) /\ Contains(href, StrSEq)
    THEN LET match == SlugMatch(href)
         IN  IF match # None
             THEN LET p1 == [p EXCEPT !.current_link = Some(match[1])]
                  IN  IF Truthy(p1.pending_team_name)
                      THEN [p1 EXCEPT
                              !.teams = Append(p1.teams,
                                  [team |-> p1.pending_team_name[1],
                                   slug |-> p1.current_link[1]])]
                      ELSE p1
             ELSE p
    ELSE p

\* the anchor branch of handle_starttag for an href that is a string
AnchorBranch(p, href) ==
    IF Contains(href, StrDepthChartAspx) /\ Contains(href, StrSEq)
    THEN LET match == SlugMatch(href)
         IN  IF match # None
             THEN LET p1 == [p EXCEPT !.current_link = Some(match[1])]
                  IN  IF Truthy(p1.pending_team_name)
                      THEN [p1 EXCEPT
                              !.teams = Append(p1.teams,
                                  [team |-> p1.pending_team_name[1],
                                   slug |-> p1.current_link[1]]),
                              !.pending_team_name = None]
                      ELSE p1
             ELSE p
    ELSE p

\* handle_starttag: the new parser state, and whether the handler raised
\* (`x in None` raises TypeError for an attribute given without a value)
HandleStarttag(p, tag, attrs) ==
    IF tag = "a" /\ DictHas(attrs, "href") /\ DictGet(attrs, "href") = None
    THEN [p |-> p, raised |-> TRUE]
    ELSE LET p1 == IF tag = "a" /\ DictHas(attrs, "href")
                   THEN AnchorBranch(p, DictGet(attrs, "href")[1])
                   ELSE p
         IN  IF tag = "div" /\ DictHas(attrs, "class")
             THEN IF DictGet(attrs, "class") = None
                  THEN [p |-> p1, raised |-> TRUE]
                  ELSE LET cls == DictGet(attrs, "class")[1]
                       IN  IF Contains(cls, StrTeamName) \/ Contains(cls, StrMmTeamName)
                           THEN [p |-> [p1 EXCEPT !.in_team_name = TRUE],
                                 raised |-> FALSE]
                           ELSE [p |-> p1, raised |-> FALSE]
             ELSE [p |-> p1, raised |-> FALSE]

\* handle_data that keeps a pending name instead of overwriting it
HandleDataKeepFirst(p, data) ==
    LET d == Strip(data)
    IN  IF d = <<>> THEN [p |-> p, warned |-> FALSE]
        ELSE IF p.in_team_name
             THEN [p |-> [p EXCEPT
                            !.pending_team_name =
                                IF Truthy(p.pending_team_name)
                                THEN p.pending_team_name ELSE Some(d),
                            !.in_team_name = FALSE],
                   warned |-> Truthy(p.pending_team_name)]
             ELSE [p |-> p, warned |-> FALSE]

\* handle_data that stays in the team name div after buffering a name
HandleDataStaysIn(p, data) ==
    LET d == Strip(data)
    IN  IF d = <<>> THEN [p |-> p, warned |-> FALSE]
        ELSE IF p.in_team_name /\ d # <<>>
             THEN [p |-> [p EXCEPT !.pending_team_name = Some(d)],
                   warned |-> Truthy(p.pending_team_name)]
             ELSE [p |-> p, warned |-> FALSE]

\* handle_data: the new parser state, and whether the overwrite warning was logged
HandleData(p, data) ==
    LET d == Strip(data)
    IN  IF d = <<>> THEN [p |-> p, warned |-> FALSE]
        ELSE IF p.in_team_name /\ d # <<>>
             THEN [p |-> [p EXCEPT !.pending_team_name = Some(d),
                                   !.in_team_name = FALSE],
                   warned |-> Truthy(p.pending_team_name)]
             ELSE [p |-> p, warned |-> FALSE]

\* handle_endtag that also drops the buffered name when a div closes
HandleEndtagDropsPending(p, tag) ==
    IF tag = "div"
    THEN [p EXCEPT !.in_team_name = FALSE, !.pending_team_name = None]
    ELSE p

\* handle_endtag
HandleEndtag(p, tag) ==
    IF tag = "div" THEN [p EXCEPT !.in_team_name = FALSE] ELSE p

(***************************************************************************)
(* The parser events the markup decomposes into (html.parser.HTMLParser is *)
(* the event source).  attrs is the list of (name, value) pairs; a value   *)
(* is None when the attribute is written without one.  An "error" event is *)
(* the event source itself raising (HTMLParser raises AssertionError on an *)
(* unknown marked section such as <![x[ ).                                 *)
(***************************************************************************)
StartTag(tag, attrs) == [type |-> "start", tag |-> tag, attrs |-> attrs, data |-> <<>>]
EndTag(tag) == [type |-> "end", tag |-> tag, attrs |-> <<>>, data |-> <<>>]
Data(text) == [type |-> "data", tag |-> "", attrs |-> <<>>, data |-> text]
SourceError == [type |-> "error", tag |-> "", attrs |-> <<>>, data |-> <<>>]

\* <div class='nfl-dc-mm-team-name'>
ClassLabel == <<"n","f","l","-","d","c","-">> \o StrMmTeamName
OpenLabel == StartTag("div", << <<"class", Some(ClassLabel)>> >>)
\* <div class='row'>
OpenPlainDiv == StartTag("div", << <<"class", Some(<<"r","o","w">>)>> >>)
\* <div class>
DivNoValue == StartTag("div", << <<"class", None>> >>)
\* <a href='depth-chart.aspx?s=al&id=1'>
HrefA == StrDepthChartAspx \o <<"?","s","=","a","l","&","i","d","=","1">>
AnchorA == StartTag("a", << <<"href", Some(HrefA)>> >>)
\* <a href='depth-chart.aspx?s=b'>
HrefB == StrDepthChartAspx \o <<"?","s","=","b">>
AnchorB == StartTag("a", << <<"href", Some(HrefB)>> >>)
\* <a href='depth-chart.aspx?s=&id=1'>: no identifier after "s="
HrefEmptySlug == StrDepthChartAspx \o <<"?","s","=","&","i","d","=","1">>
AnchorEmptySlug == StartTag("a", << <<"href", Some(HrefEmptySlug)>> >>)
\* <a href='roster.aspx?s=al'>: not a depth-chart link
HrefOther == <<"r","o","s","t","e","r",".","a","s","p","x","?","s","=","a","l">>
AnchorOther == StartTag("a", << <<"href", Some(HrefOther)>> >>)
\* <a href>
AnchorNoValue == StartTag("a", << <<"href", None>> >>)
\* " Al\n", "B U" and "  "
TextA == Data(<<" ","A","l","\n">>)
TextB == Data(<<"B"," ","U">>)
TextBlank == Data(<<" "," ">>)
CloseDiv == EndTag("div")

Events == {OpenLabel, OpenPlainDiv, DivNoValue, AnchorA, AnchorB, AnchorEmptySlug,
           AnchorOther, AnchorNoValue, TextA, TextB, TextBlank, CloseDiv, SourceError}

\* the sequences over S of length at most n
RECURSIVE SeqsUpTo(_, _)
SeqsUpTo(S, n) ==
    IF n = 0 THEN {<<>>}
    ELSE LET shorter == SeqsUpTo(S, n - 1)
         IN  shorter \cup {Append(s, e) : s \in {t \in shorter : Len(t) = n - 1}, e \in S}

(***************************************************************************)
(* What the input events are, read off the markup (not computed by the     *)
(* parser): which open a label container, which are matching anchors and   *)
(* with which identifier, the trimmed content of a text, which make the    *)
(* event source or a handler fail.                                         *)
(***************************************************************************)
IsLabelOpen(e) == e = OpenLabel
IsMatchingAnchor(e) == e \in {AnchorA, AnchorB}
AnchorSlug(e) == IF e = AnchorA THEN <<"a","l">> ELSE <<"b">>
TextCore(e) == IF e = TextA THEN <<"A","l">> ELSE IF e = TextB THEN <<"B"," ","U">> ELSE <<>>
IsLabelText(e) == e \in {TextA, TextB}
IsFailing(e) == e \in {DivNoValue, AnchorNoValue, SourceError}

(***************************************************************************)
(* depth_chart_scraper.DepthChartScraper.scrape_depth_chart                *)
(***************************************************************************)
ZeroLog == [overwrite |-> 0, unpaired |-> 0, noTeams |-> 0,
            fetchFailed |-> 0, parseException |-> 0, invalid |-> 0]

\* what fetch_html hands to scrape_depth_chart: None, '' or markup
FetchKinds == {"none", "empty", "content"}

\* one callback of parser.feed: the new parser state, whether the callback (or
\* the event source) raised, whether the overwrite warning was logged
Dispatch(p, e) ==
    CASE e.type = "start" ->
            LET r == HandleStarttag(p, e.tag, e.attrs)
            IN  [p |-> r.p, raised |-> r.raised, warned |-> FALSE]
      [] e.type = "data" ->
            LET r == HandleData(p, e.data)
            IN  [p |-> r.p, raised |-> FALSE, warned |-> r.warned]
      [] e.type = "end" ->
            [p |-> HandleEndtag(p, e.tag), raised |-> FALSE, warned |-> FALSE]
      [] OTHER -> [p |-> p, raised |-> TRUE, warned |-> FALSE]

\* the de-duplication loop with the later record of a slug replacing the earlier
RemoveDuplicatesKeepLast(teams) ==
    LET keep == {i \in 1..Len(teams) :
                    \A j \in (i + 1)..Len(teams) : teams[j].slug # teams[i].slug}
        F[i \in 0..Len(teams)] ==
            IF i = 0 THEN <<>>
            ELSE IF i \in keep THEN Append(F[i - 1], teams[i]) ELSE F[i - 1]
    IN  F[Len(teams)]

\* the de-duplication loop with unique_teams.insert(0, team)
RemoveDuplicatesPrepend(teams) ==
    LET F[i \in 0..Len(teams)] ==
            IF i = 0 THEN <<>>
            ELSE IF \E j \in 1..(i - 1) : teams[j].slug = teams[i].slug
                 THEN F[i - 1] ELSE <<teams[i]>> \o F[i - 1]
    IN  F[Len(teams)]

\* the loop `for team in parser.teams` over seen_slugs and unique_teams
RECURSIVE DedupLoop(_, _, _)
DedupLoop(teams, seen_slugs, unique_teams) ==
    IF teams = <<>> THEN unique_teams
    ELSE LET team == Head(teams)
         IN  IF team.slug \notin seen_slugs
             THEN DedupLoop(Tail(teams), seen_slugs \cup {team.slug},
                            Append(unique_teams, team))
             ELSE DedupLoop(Tail(teams), seen_slugs, unique_teams)

\* "Remove duplicates based on team slug"
RemoveDuplicates(teams) == DedupLoop(teams, {}, <<>>)

\* t.get('team') and t.get('slug')
IsValidTeam(t) == t.team # <<>> /\ t.slug # <<>>

\* "Validate team data structure"
Validate(unique_teams) ==
    [result |-> SelectSeq(unique_teams, IsValidTeam),
     invalid |-> IF \E i \in 1..Len(unique_teams) : ~IsValidTeam(unique_teams[i])
                 THEN 1 ELSE 0]

\* the code after parser.feed without the zero-team check
AfterFeedNoZeroCheck(p, lg) ==
    LET lg1 == IF Truthy(p.pending_team_name)
               THEN [lg EXCEPT !.unpaired = @ + 1] ELSE lg
        v == Validate(RemoveDuplicates(p.teams))
    IN  [result |-> v.result, outcome |-> "returned",
         log |-> [lg1 EXCEPT !.invalid = @ + v.invalid]]

\* the code after parser.feed without the unpaired-name warning
AfterFeedSilent(p, lg) ==
    IF Len(p.teams) = 0
    THEN [result |-> <<>>, outcome |-> "returned",
          log |-> [lg EXCEPT !.noTeams = @ + 1]]
    ELSE LET v == Validate(RemoveDuplicates(p.teams))
         IN  [result |-> v.result, outcome |-> "returned",
              log |-> [lg EXCEPT !.invalid = @ + v.invalid]]

\* the code after parser.feed returned: the unpaired-name warning, the
\* zero-team check, de-duplication, validation, return
AfterFeed(p, lg) ==
    LET lg1 == IF Truthy(p.pending_team_name)
               THEN [lg EXCEPT !.unpaired = @ + 1] ELSE lg
    IN  IF Len(p.teams) = 0
        THEN [result |-> <<>>, outcome |-> "returned",
              log |-> [lg1 EXCEPT !.noTeams = @ + 1]]
        ELSE LET v == Validate(RemoveDuplicates(p.teams))
             IN  [result |-> v.result, outcome |-> "returned",
                  log |-> [lg1 EXCEPT !.invalid = @ + v.invalid]]

\* a scrape_depth_chart without the except clause
OnParseExceptionPropagates(p, lg) ==
    [result |-> <<>>, outcome |-> "raised", log |-> lg]

\* the clause `except Exception as e`: log and return []
OnParseException(p, lg) ==
    [result |-> <<>>, outcome |-> "returned",
     log |-> [lg EXCEPT !.parseException = @ + 1]]

\* scrape_depth_chart up to the creation of the parser; kind is what
\* fetch_html returned
ScrapeCall(kind) ==
    /\ phase = "idle"
    /\ IF kind \in {"none", "empty"}
       THEN /\ phase' = "done"
            /\ outcome' = "returned"
            /\ log' = [ZeroLog EXCEPT !.fetchFailed = 1]
            /\ parser' = parser
       ELSE /\ phase' = "parsing"
            /\ outcome' = "none"
            /\ log' = ZeroLog
            /\ parser' = NewParser
    /\ html' = kind
    /\ result' = <<>>
    /\ nfed' = 0
    /\ broke' = FALSE
    /\ awaiting' = FALSE
    /\ unpaired' = <<>>
    /\ lastSlug' = None
    /\ lastKind' = "none"
    /\ captured' = 0
    /\ anchors' = 0
    /\ sinceOpen' = 0
    /\ UNCHANGED <<src, run, result1, webVars, fetchVars, clockVars, auxVars>>

\* parser.feed delivers event e to its callback; an exception ends the call
\* through the except clause
FeedEvent(e) ==
    /\ phase = "parsing"
    /\ nfed' = nfed + 1
    /\ LET r == Dispatch(parser, e)
       IN  /\ parser' = r.p
           /\ IF r.raised
              THEN LET x == OnParseException(r.p, log)
                   IN  /\ phase' = "done"
                       /\ result' = x.result
                       /\ outcome' = x.outcome
                       /\ log' = x.log
              ELSE /\ phase' = "parsing"
                   /\ log' = IF r.warned THEN [log EXCEPT !.overwrite = @ + 1] ELSE log
                   /\ UNCHANGED <<result, outcome>>
    /\ awaiting' = IF IsLabelOpen(e) THEN TRUE
                   ELSE IF IsLabelText(e) \/ e = CloseDiv THEN FALSE
                   ELSE awaiting
    /\ unpaired' = IF IsMatchingAnchor(e) THEN <<>>
                   ELSE IF IsLabelText(e) /\ awaiting THEN Append(unpaired, TextCore(e))
                   ELSE unpaired
    /\ lastSlug' = IF IsMatchingAnchor(e) THEN Some(AnchorSlug(e)) ELSE lastSlug
    /\ broke' = IsFailing(e)
    /\ lastKind' = IF IsMatchingAnchor(e) THEN "anchor"
                   ELSE IF IsLabelText(e) /\ awaiting THEN "label"
                   ELSE IF IsLabelText(e) THEN "stray"
                   ELSE IF e = TextBlank THEN "blank"
                   ELSE IF IsLabelOpen(e) THEN "open"
                   ELSE IF e = CloseDiv THEN "close"
                   ELSE "other"
    /\ captured' = IF IsLabelText(e) /\ awaiting THEN captured + 1 ELSE captured
    /\ anchors' = IF IsMatchingAnchor(e) THEN anchors + 1 ELSE anchors
    /\ sinceOpen' = IF IsLabelOpen(e) THEN 0
                    ELSE IF IsLabelText(e) /\ awaiting THEN sinceOpen + 1
                    ELSE sinceOpen
    /\ UNCHANGED <<html, src, run, result1, webVars, fetchVars, clockVars, auxVars>>

\* parser.feed returned: the rest of scrape_depth_chart
EndStream ==
    /\ phase = "parsing"
    /\ LET x == AfterFeed(parser, log)
       IN  /\ result' = x.result
           /\ outcome' = x.outcome
           /\ log' = x.log
    /\ phase' = "done"
    /\ UNCHANGED <<html, parser, nfed, src, run, result1, awaiting, unpaired,
                   lastSlug, broke, lastKind, captured, anchors, sinceOpen,
                   webVars, fetchVars, clockVars, auxVars>>

(***************************************************************************)
(* The two ways scrape_depth_chart is driven.  Spec: any event may follow  *)
(* any other, up to MaxEvents events.  SpecTwice: the markup is fixed in   *)
(* advance (src) and the same scraper instance is called twice on it.      *)
(***************************************************************************)
Streamed == [kind |-> "stream", events |-> <<>>]

Docs == SeqsUpTo(Events, MaxDocLen)

Sources == {[kind |-> k, events |-> <<>>] : k \in {"none", "empty"}}
           \cup {[kind |-> "content", events |-> d] : d \in Docs}

StreamCall == \E kind \in FetchKinds : src = Streamed /\ ScrapeCall(kind)

StreamFeed == \E e \in Events : nfed < MaxEvents /\ FeedEvent(e)

StreamEnd == EndStream

TwiceCall == src # Streamed /\ ScrapeCall(src.kind)

TwiceFeed == nfed < Len(src.events) /\ FeedEvent(src.events[nfed + 1])

TwiceEnd == nfed = Len(src.events) /\ EndStream

\* the first call has returned; the caller calls scrape_depth_chart again
TwiceAgain ==
    /\ phase = "done"
    /\ run = 1
    /\ run' = 2
    /\ result1' = result
    /\ phase' = "idle"
    /\ UNCHANGED <<html, parser, nfed, log, result, outcome, src, awaiting,
                   unpaired, lastSlug, broke, lastKind, captured, anchors, sinceOpen,
                   webVars, fetchVars, clockVars, auxVars>>

(***************************************************************************)
(* web_scraper.DepthChartParser                                            *)
(***************************************************************************)
UpperChars == <<"A","B","C","D","E","F","G","H","I","J","K","L","M",
                "N","O","P","Q","R","S","T","U","V","W","X","Y","Z">>
LowerChars == <<"a","b","c","d","e","f","g","h","i","j","k","l","m",
                "n","o","p","q","r","s","t","u","v","w","x","y","z">>
IsUpperChar(c) == \E i \in 1..26 : UpperChars[i] = c
IsLowerChar(c) == \E i \in 1..26 : LowerChars[i] = c

\* str.lower()
Lower(s) ==
    [i \in 1..Len(s) |->
        IF IsUpperChar(s[i])
        THEN LowerChars[CHOOSE k \in 1..26 : UpperChars[k] = s[i]]
        ELSE s[i]]

\* str.isupper(): some cased character, and no lowercase one
IsUpper(s) ==
    /\ \E i \in 1..Len(s) : IsUpperChar(s[i])
    /\ \A i \in 1..Len(s) : ~IsLowerChar(s[i])

\* str(v) of an attribute value
StrOf(v) == IF v = None THEN <<"N","o","n","e">> ELSE v[1]

StrTeam == <<"t","e","a","m">>

\* DepthChartParser.__init__
NewWebParser == [depth_chart |-> <<>>, current_team |-> None,
                 current_position |-> None]

\* a handle_starttag that takes the tag of a team heading as the team
WebHandleStarttagNamesTeam(p, tag, attrs) ==
    IF /\ tag \in {"h2", "h3"}
       /\ \E i \in 1..Len(attrs) :
              attrs[i][1] = "class" /\ Contains(Lower(StrOf(attrs[i][2])), StrTeam)
    THEN [p EXCEPT !.current_team = Some(<<"h">>)]
    ELSE p

\* handle_starttag: a team heading resets current_team
WebHandleStarttag(p, tag, attrs) ==
    IF /\ tag \in {"h2", "h3"}
       /\ \E i \in 1..Len(attrs) :
              attrs[i][1] = "class" /\ Contains(Lower(StrOf(attrs[i][2])), StrTeam)
    THEN [p EXCEPT !.current_team = None]
    ELSE p

\* handle_data
WebHandleData(p, text) ==
    LET data == Strip(text)
    IN  IF data = <<>> THEN p
        ELSE IF Truthy(p.current_team)
             THEN IF IsUpper(data) /\ Len(data) <= 4
                  THEN [p EXCEPT !.current_position = Some(data)]
                  ELSE IF Truthy(p.current_position)
                       THEN LET team == p.current_team[1]
                                pos == p.current_position[1]
                                dc1 == IF team \notin DOMAIN p.depth_chart
                                       THEN p.depth_chart @@ (team :> <<>>)
                                       ELSE p.depth_chart
                                dc2 == IF pos \notin DOMAIN dc1[team]
                                       THEN [dc1 EXCEPT ![team] = @ @@ (pos :> <<>>)]
                                       ELSE dc1
                            IN  [p EXCEPT !.depth_chart =
                                    [dc2 EXCEPT ![team][pos] = Append(@, data)]]
                       ELSE p
             ELSE p

\* <h2 class='Team-hd'>, <h3 class='row'>
WOpenTeam == StartTag("h2", << <<"class", Some(<<"T","e","a","m","-","h","d">>)>> >>)
WOpenOther == StartTag("h3", << <<"class", Some(<<"r","o","w">>)>> >>)
\* "Ala", "QB", "Jo", "Ji" and " "
WTextTeam == Data(<<"A","l","a">>)
WTextQB == Data(<<"Q","B">>)
WTextJo == Data(<<"J","o">>)
WTextJi == Data(<<"J","i">>)
WTextBlank == Data(<<" ">>)

WebEvents == {WOpenTeam, WOpenOther, WTextTeam, WTextQB, WTextJo, WTextJi, WTextBlank}

\* parser.feed delivers event e to its callback (the class defines no
\* handle_endtag)
WebFeed(e) ==
    /\ Len(wfed) < MaxWebEvents
    /\ wparser' = IF e.type = "start" THEN WebHandleStarttag(wparser, e.tag, e.attrs)
                  ELSE WebHandleData(wparser, e.data)
    /\ wfed' = Append(wfed, e)
    /\ UNCHANGED <<iparser, ifed, ilast, scrapeVars, fetchVars, clockVars, auxVars>>

WebStep == \E e \in WebEvents : WebFeed(e)

(***************************************************************************)
(* web_scraper.InjuryReportParser.  current_item is a dict from field name *)
(* to text; in_player_name, in_position, in_status and in_team are never   *)
(* written after __init__ and are not modelled.                            *)
(***************************************************************************)
\* InjuryReportParser.__init__
NewInjuryParser == [injuries |-> <<>>, current_item |-> <<>>,
                    in_injury_section |-> FALSE, current_tag |-> None]

StrInjury == <<"i","n","j","u","r","y">>
StrPlayer == <<"p","l","a","y","e","r">>

\* the order in which handle_data tries the fields
InjuryFields == <<"player", "position", "status", "team">>

\* handle_starttag: a tr or div with 'injury' or 'player' in a class value
\* opens a section and starts a new item
InjuryHandleStarttag(p, tag, attrs) ==
    LET p1 == [p EXCEPT !.current_tag = Some(tag)]
    IN  IF /\ tag \in {"tr", "div"}
           /\ \E i \in 1..Len(attrs) :
                  /\ attrs[i][1] = "class"
                  /\ \/ Contains(Lower(StrOf(attrs[i][2])), StrInjury)
                     \/ Contains(Lower(StrOf(attrs[i][2])), StrPlayer)
        THEN [p1 EXCEPT !.in_injury_section = TRUE, !.current_item = <<>>]
        ELSE p1

\* handle_endtag: closing a tr or div inside a section saves the item when it
\* has a player, and ends the section
InjuryHandleEndtag(p, tag) ==
    LET p1 == IF tag \in {"tr", "div"} /\ p.in_injury_section
              THEN [p EXCEPT
                      !.injuries = IF /\ DictTruthy(p.current_item)
                                      /\ "player" \in DOMAIN p.current_item
                                   THEN Append(p.injuries, p.current_item)
                                   ELSE p.injuries,
                      !.in_injury_section = FALSE,
                      !.current_item = <<>>]
              ELSE p
    IN  [p1 EXCEPT !.current_tag = None]

\* `not self.current_item.get(k)`
ItemLacks(item, k) == k \notin DOMAIN item \/ item[k] = <<>>

\* a chain that writes the player whether or not it is set
FillPlayerAlways(item, i, data) == DictSet(item, InjuryFields[1], data)

\* the if/elif chain from field i on: the first field the item lacks gets data
RECURSIVE FillFrom(_, _, _)
FillFrom(item, i, data) ==
    IF i > Len(InjuryFields) THEN item
    ELSE IF ItemLacks(item, InjuryFields[i]) THEN DictSet(item, InjuryFields[i], data)
    ELSE FillFrom(item, i + 1, data)

\* handle_data
InjuryHandleData(p, text) ==
    IF ~p.in_injury_section \/ Strip(text) = <<>> THEN p
    ELSE LET data == Strip(text)
         IN  IF p.current_tag # None /\ p.current_tag[1] \in {"td", "span", "div", "p"}
             THEN [p EXCEPT !.current_item = FillFrom(p.current_item, 1, data)]
             ELSE p

\* <tr class='injury-row'>, <div class='Player'>, <tr>, <td>
IOpenRow == StartTag("tr", << <<"class", Some(StrInjury \o <<"-","r","o","w">>)>> >>)
IOpenPlayerDiv == StartTag("div", << <<"class", Some(<<"P","l","a","y","e","r">>)>> >>)
IOpenPlainRow == StartTag("tr", <<>>)
IOpenTd == StartTag("td", <<>>)
\* </tr>, </td>
ICloseTr == EndTag("tr")
ICloseTd == EndTag("td")
\* " Jo" and "QB"
ITextJo == Data(<<" ","J","o">>)
ITextQB == Data(<<"Q","B">>)

InjuryEvents == {IOpenRow, IOpenPlayerDiv, IOpenPlainRow, IOpenTd, ICloseTr, ICloseTd,
                 ITextJo, ITextQB, TextBlank}

\* parser.feed delivers event e to its callback
InjuryFeed(e) ==
    /\ ifed < MaxInjuryEvents
    /\ iparser' = CASE e.type = "start" -> InjuryHandleStarttag(iparser, e.tag, e.attrs)
                    [] e.type = "end" -> InjuryHandleEndtag(iparser, e.tag)
                    [] OTHER -> InjuryHandleData(iparser, e.data)
    /\ ifed' = ifed + 1
    /\ ilast' = Some(e)
    /\ UNCHANGED <<wparser, wfed, scrapeVars, fetchVars, clockVars, auxVars>>

InjuryStep == \E e \in InjuryEvents : InjuryFeed(e)

(***************************************************************************)
(* depth_chart_scraper.DepthChartScraper.fetch_html                        *)
(***************************************************************************)
ALLOWED_URL == "https://www.ourlads.com/ncaa-football-depth-charts/"
Urls == {ALLOWED_URL, "https://www.ourlads.com/ncaa-football-depth-charts",
         "https://example.com/other"}
\* SCRAPER_CONFIG['max_retries'], SCRAPER_CONFIG['rate_limit_delay']
MaxRetries == 3
RATE_LIMIT_DELAY == 2
\* config.MAX_RETRIES, config.RETRY_DELAY
FEED_MAX_RETRIES == 3
RETRY_DELAY == 5
\* config.WEB_SCRAPING_CONFIG['max_retries'] and ['rate_limit_delay']
WEB_MAX_RETRIES == 3
WEB_RATE_LIMIT_DELAY == 2

\* feed_config before any call
NoFeedConfig == [url |-> "", priority |-> None]

\* config.EMAIL_CONFIG when the environment sets nothing
DefaultEmailConfig ==
    [enabled |-> FALSE, host |-> "smtp.gmail.com", port |-> 587, username |-> "",
     password |-> "", to_email |-> "", use_tls |-> TRUE, use_ssl |-> FALSE]

\* the classes that own a fetch loop
Fetchers == {"DepthChartScraper", "WebScraper", "RSSFeedHandler"}

\* what sock.connect meets inside verify_connection
ConnOutcomes == {"ok", "gaierror", "timeout", "refused", "error"}
\* what one urlopen attempt meets
AttemptOutcomes == {"ok", "http404", "http410", "http403", "http500",
                    "urlerror", "timeout", "error"}
\* seconds one urlopen attempt may take
Lags == 0..MaxLag

\* response.read().decode('utf-8') of the n-th request of a call
Response(n) == <<"response", n>>

\* a whitelist that accepts every url
VerifyUrlAny(url) == TRUE

\* _verify_url
VerifyUrl(url) == url = ALLOWED_URL

\* a connection check whose result is ignored
VerifyConnectionIgnored(c) == TRUE

\* verify_connection: every exception of the connect gives False
VerifyConnection(c) == c = "ok"

\* a loop that breaks on 404 and 410 only
NoRetryNotFoundOnly(o) == o \in {"http404", "http410"}

\* the HTTP errors after which the loop of the two fetch_html breaks
NoRetry(o) == o \in {"http404", "http410", "http403"}

\* the HTTP errors after which the loop of fetch_feed breaks
FeedNoRetry(o) == o \in {"http404", "http410"}

\* a loop condition that lets one more iteration in
LoopGuardInclusive(r, max_retries) == r <= max_retries

\* `while retries < max_retries`
LoopGuard(r, max_retries) == r < max_retries

\* a retry that never sleeps
SleepsNever(r, max_retries) == FALSE

\* `if retries < max_retries: time.sleep(...)`, after the increment
SleepsAgain(r, max_retries) == r < max_retries

\* a rate limiter that never sleeps
RateLimitNoWait(t, last, delay) == 0

\* _rate_limit: the seconds slept when called at time t
RateLimitWait(t, last, delay) ==
    LET time_since_last_request == t - last
    IN  IF time_since_last_request < delay
        THEN delay - time_since_last_request
        ELSE 0

\* _rate_limit called at time `now`: sleep, then last_request_time = time.time()
RateLimit(delay) ==
    LET current_time == now
        wait == RateLimitWait(current_time, last_request_time, delay)
        woke == current_time + wait
    IN  /\ last_request_time' = woke
        /\ limited' = [n |-> IF limited.n < 2 THEN limited.n + 1 ELSE 2,
                       prev |-> limited.at,
                       at |-> Some(woke),
                       slept |-> wait]

\* one iteration of the retry loop: the request is issued at time t, takes lag
\* seconds and meets o; stops says whether o breaks the loop
Iteration(o, lag, t, max_retries, stops, retry_delay) ==
    /\ fpc = "loop"
    /\ LoopGuard(retries, max_retries)
    /\ calls' = Append(calls, "urlopen")
    /\ met' = Append(met, o)
    /\ IF o = "ok"
       THEN /\ fpc' = "done"
            /\ fresult' = Some(Response(Len(met) + 1))
            /\ now' = t + lag
            /\ UNCHANGED <<retries, sleeps>>
       ELSE IF stops
            THEN /\ fpc' = "done"
                 /\ fresult' = None
                 /\ now' = t + lag
                 /\ UNCHANGED <<retries, sleeps>>
            ELSE /\ retries' = retries + 1
                 /\ sleeps' = IF SleepsAgain(retries + 1, max_retries)
                              THEN sleeps + 1 ELSE sleeps
                 /\ now' = IF SleepsAgain(retries + 1, max_retries)
                           THEN t + lag + retry_delay ELSE t + lag
                 /\ fpc' = IF LoopGuard(retries + 1, max_retries)
                           THEN "loop" ELSE "done"
                 /\ fresult' = IF LoopGuard(retries + 1, max_retries)
                               THEN fresult ELSE None
    /\ UNCHANGED <<furl, conn, fetcher, ncalls>>

\* DepthChartScraper.fetch_html(url) up to the whitelist check
FetchCall(url) ==
    /\ fetcher = "DepthChartScraper"
    /\ fpc = "idle"
    /\ furl' = url
    /\ calls' = <<"verify_url">>
    /\ IF VerifyUrl(url)
       THEN fpc' = "verify" /\ fresult' = fresult
       ELSE fpc' = "done" /\ fresult' = None
    /\ retries' = 0
    /\ sleeps' = 0
    /\ conn' = "unset"
    /\ met' = <<>>
    /\ UNCHANGED <<scrapeVars, webVars, clockVars, auxVars>>

\* the connection check, meeting c
FetchVerify(c) ==
    /\ fpc = "verify"
    /\ conn' = c
    /\ calls' = Append(calls, "verify_connection")
    /\ IF VerifyConnection(c)
       THEN fpc' = "loop" /\ fresult' = fresult
       ELSE fpc' = "done" /\ fresult' = None
    /\ UNCHANGED <<furl, retries, sleeps, met, scrapeVars, webVars, clockVars, auxVars>>

\* DepthChartScraper.fetch_html: one iteration of the loop
FetchAttempt(o, lag) ==
    /\ fetcher = "DepthChartScraper"
    /\ RateLimit(RATE_LIMIT_DELAY)
    /\ Iteration(o, lag, limited'.at[1], MaxRetries, NoRetry(o), RATE_LIMIT_DELAY)
    /\ UNCHANGED <<scrapeVars, webVars, auxVars>>

\* the loop of WebScraper.fetch_html and of RSSFeedHandler.fetch_feed starts
\* with the call: no whitelist, no connection check
LoopEnter(url) ==
    /\ furl' = url
    /\ calls' = <<>>
    /\ fpc' = "loop"
    /\ retries' = 0
    /\ sleeps' = 0
    /\ met' = <<>>
    /\ UNCHANGED <<conn, fresult>>

LoopCall(url) ==
    /\ fpc = "idle"
    /\ LoopEnter(url)
    /\ UNCHANGED clockVars

\* WebScraper.fetch_html(url)
WebFetchCall(url) ==
    /\ fetcher = "WebScraper"
    /\ LoopCall(url)
    /\ UNCHANGED <<scrapeVars, webVars, auxVars>>

\* WebScraper.fetch_html: one iteration of the loop
WebFetchIteration(o, lag) ==
    /\ fetcher = "WebScraper"
    /\ RateLimit(WEB_RATE_LIMIT_DELAY)
    /\ Iteration(o, lag, limited'.at[1], WEB_MAX_RETRIES, NoRetry(o),
                 WEB_RATE_LIMIT_DELAY)

WebFetchAttempt(o, lag) ==
    /\ WebFetchIteration(o, lag)
    /\ UNCHANGED <<scrapeVars, webVars, auxVars>>

\* RSSFeedHandler.fetch_feed(feed_url)
FeedFetchCall(url) ==
    /\ fetcher = "RSSFeedHandler"
    /\ LoopCall(url)
    /\ UNCHANGED <<scrapeVars, webVars, auxVars>>

\* RSSFeedHandler.fetch_feed: one iteration of the loop (no rate limiter)
FeedFetchIteration(o, lag) ==
    /\ fetcher = "RSSFeedHandler"
    /\ Iteration(o, lag, now, FEED_MAX_RETRIES, FeedNoRetry(o), RETRY_DELAY)
    /\ UNCHANGED <<last_request_time, limited>>

FeedFetchAttempt(o, lag) ==
    /\ FeedFetchIteration(o, lag)
    /\ UNCHANGED <<scrapeVars, webVars, auxVars>>

\* the caller calls the fetch method of the instance again
FetchAgain ==
    /\ fpc = "done"
    /\ ncalls < MaxFetchCalls
    /\ fpc' = "idle"
    /\ ncalls' = ncalls + 1
    /\ UNCHANGED <<furl, calls, retries, sleeps, conn, met, fresult, fetcher, now,
                   last_request_time, limited, scrapeVars, webVars, auxVars>>

\* d seconds pass between two calls
Tick(d) ==
    /\ fpc \in {"idle", "done"}
    /\ now + d <= StartTime + MaxElapsed
    /\ now' = now + d
    /\ UNCHANGED <<fetchVars, fetcher, ncalls, last_request_time, limited,
                   scrapeVars, webVars, auxVars>>

FetchStart == \E url \in Urls : FetchCall(url)
FetchCheck == \E c \in ConnOutcomes : FetchVerify(c)
FetchTry == \E o \in AttemptOutcomes, lag \in Lags : FetchAttempt(o, lag)
WebFetchStart == \E url \in Urls : WebFetchCall(url)
WebFetchTry == \E o \in AttemptOutcomes, lag \in Lags : WebFetchAttempt(o, lag)
FeedFetchStart == \E url \in Urls : FeedFetchCall(url)
FeedFetchTry == \E o \in AttemptOutcomes, lag \in Lags : FeedFetchAttempt(o, lag)
TimePasses == \E d \in 1..2 : Tick(d)

(***************************************************************************)
(* news_aggregator.RSSFeedHandler.get_feed_items and config.py             *)
(***************************************************************************)
\* config.FEED_REFRESH_INTERVALS and config.MAX_ITEMS_PER_FEED
FEED_REFRESH_DEFAULT == 3600
FEED_REFRESH_HIGH == 1800
FEED_REFRESH_LOW == 7200
MAX_ITEMS_PER_FEED == 50

\* config.get_refresh_interval
GetRefreshInterval(priority) ==
    CASE priority = 1 -> FEED_REFRESH_HIGH
      [] priority = 2 -> FEED_REFRESH_DEFAULT
      [] priority = 3 -> FEED_REFRESH_LOW
      [] OTHER -> FEED_REFRESH_DEFAULT

\* the feed configurations: config.RSS_FEEDS (priority 1), a feed without a
\* priority and a low-priority feed
FeedA == [url |-> "https://rss.app/feeds/3j65xfmG9wfdJGvl.xml", priority |-> Some(1)]
FeedB == [url |-> "https://example.com/feed.xml", priority |-> None]
FeedC == [url |-> "https://example.com/low.xml", priority |-> Some(3)]
FeedConfigs == {FeedA, FeedB, FeedC}

\* the bodies a feed server sends: nothing, text that is not XML, an RSS 2.0
\* channel with one titled item and one item without title and link, an Atom
\* feed with one entry that has only a link
Entry(title, link) == [title |-> title, link |-> link]
EmptyBody == [format |-> "empty", entries |-> <<>>]
MalformedXml == [format |-> "malformed", entries |-> <<>>]
RssDoc == [format |-> "rss", entries |-> <<Entry("Injury update", "u1"), Entry("", "")>>]
AtomDoc == [format |-> "atom", entries |-> <<Entry("", "u2")>>]
FeedDocs == {EmptyBody, MalformedXml, RssDoc, AtomDoc}

\* a test that takes a body that does not parse for a failed fetch
ContentTruthyWellFormed(doc) == doc.format \in {"rss", "atom"}

\* `if xml_content:` for a body that was fetched
ContentTruthy(doc) == doc.format # "empty"

\* items[:n]
Take(s, n) == IF Len(s) <= n THEN s ELSE SubSeq(s, 1, n)

\* _parse_rss_2_0 and _parse_atom_feed keep the entries with a title or a link
KeepsItem(item) == item.title # "" \/ item.link # ""

\* parse_rss_feed: a body that does not parse gives no items
ParseRssFeed(doc) ==
    LET items == IF doc.format \in {"rss", "atom"}
                 THEN SelectSeq(doc.entries, KeepsItem)
                 ELSE <<>>
    IN  Take(items, MAX_ITEMS_PER_FEED)

\* a cache that is never fresh
CacheNeverFresh(current_time, last_fetch, refresh_interval) == FALSE

\* `if current_time - last_fetch < refresh_interval`
CacheFresh(current_time, last_fetch, refresh_interval) ==
    current_time - last_fetch < refresh_interval

\* a fallback that forgets the cache
StaleFallbackEmpty(cache, feed_url) == <<>>

\* the else branch: the cached items, stale or not, or []
StaleFallback(cache, feed_url) ==
    IF feed_url \in DOMAIN cache THEN cache[feed_url].items ELSE <<>>

\* a cache entry that carries no fetch time
CacheEntryUnstamped(items, current_time, feed_name) ==
    [items |-> items, fetched_at |-> 0, name |-> feed_name]

\* the entry stored in feeds_cache
CacheEntry(items, current_time, feed_name) ==
    [items |-> items, fetched_at |-> current_time, name |-> feed_name]

\* nothing has been called yet
NoFeedHistory ==
    [ncalls |-> 0,
     pre |-> [entry |-> FALSE, items |-> <<>>, stamp |-> None],
     prev |-> None,
     returned |-> "unset",
     body |-> "unset",
     stamps |-> <<>>]

\* what the call that just ended did
CallSummary ==
    [url |-> gcfg.url, time |-> gtime, result |-> gresult, fetches |-> gfetches,
     returned |-> ghist.returned, body |-> ghist.body]

\* get_feed_items(cfg) up to the cache test: return the cached items or enter
\* fetch_feed
GetFeedItems(cfg) ==
    /\ fetcher = "RSSFeedHandler"
    /\ gpc = "idle"
    /\ ghist.ncalls < MaxGets
    /\ LET feed_url == cfg.url
           current_time == now
           last_fetch == DictGetOr(last_fetch_times, feed_url, 0)
           priority == IF cfg.priority = None THEN 2 ELSE cfg.priority[1]
           refresh_interval == GetRefreshInterval(priority)
       IN  /\ gcfg' = cfg
           /\ gtime' = current_time
           /\ ghist' = [ghist EXCEPT
                  !.ncalls = @ + 1,
                  !.pre = [entry |-> feed_url \in DOMAIN feeds_cache,
                           items |-> IF feed_url \in DOMAIN feeds_cache
                                     THEN feeds_cache[feed_url].items ELSE <<>>,
                           stamp |-> IF feed_url \in DOMAIN ghist.stamps
                                     THEN Some(ghist.stamps[feed_url]) ELSE None],
                  !.prev = IF ghist.ncalls > 0 THEN Some(CallSummary) ELSE None,
                  !.returned = "unset",
                  !.body = "unset"]
           /\ IF /\ CacheFresh(current_time, last_fetch, refresh_interval)
                 /\ feed_url \in DOMAIN feeds_cache
              THEN /\ gpc' = "done"
                   /\ gresult' = feeds_cache[feed_url].items
                   /\ gfetches' = 0
                   /\ UNCHANGED fetchVars
              ELSE /\ gpc' = "fetching"
                   /\ gresult' = gresult
                   /\ gfetches' = 1
                   /\ LoopEnter(feed_url)
    /\ UNCHANGED <<feeds_cache, last_fetch_times, clockVars, scrapeVars, webVars,
                   chartVars, mailVars>>

\* one iteration of the loop of the fetch_feed that get_feed_items called
GetFeedAttempt(o, lag) ==
    /\ gpc = "fetching"
    /\ FeedFetchIteration(o, lag)
    /\ UNCHANGED <<feedVars, scrapeVars, webVars, chartVars, mailVars>>

\* get_feed_items after fetch_feed returned, doc being the body when one was
\* fetched: parse and cache it, or fall back on the cache
GetFeedFinish(doc) ==
    /\ gpc = "fetching"
    /\ fpc = "done"
    /\ fresult = None => doc = EmptyBody
    /\ IF fresult # None /\ ContentTruthy(doc)
       THEN LET items == ParseRssFeed(doc)
            IN  /\ feeds_cache' = DictSet(feeds_cache, gcfg.url,
                                          CacheEntry(items, gtime, gcfg.url))
                /\ last_fetch_times' = DictSet(last_fetch_times, gcfg.url, gtime)
                /\ gresult' = items
                /\ ghist' = [ghist EXCEPT !.returned = "content",
                                          !.body = doc.format,
                                          !.stamps = DictSet(@, gcfg.url, gtime)]
       ELSE /\ gresult' = StaleFallback(feeds_cache, gcfg.url)
            /\ ghist' = [ghist EXCEPT
                   !.returned = IF fresult = None THEN "none" ELSE "empty",
                   !.body = IF fresult = None THEN "none" ELSE doc.format]
            /\ UNCHANGED <<feeds_cache, last_fetch_times>>
    /\ gpc' = "done"
    /\ fpc' = "idle"
    /\ calls' = <<>>
    /\ met' = <<>>
    /\ retries' = 0
    /\ sleeps' = 0
    /\ fresult' = None
    /\ UNCHANGED <<furl, conn, gcfg, gtime, gfetches, clockVars, scrapeVars, webVars,
                   chartVars, mailVars>>

\* the caller comes back d seconds after a call of get_feed_items returned
FeedIdle(d) ==
    /\ fetcher = "RSSFeedHandler"
    /\ gpc = "done"
    /\ gpc' = "idle"
    /\ now' = now + d
    /\ UNCHANGED <<feeds_cache, last_fetch_times, gcfg, gtime, gresult, gfetches, ghist,
                   fetchVars, fetcher, ncalls, last_request_time, limited,
                   scrapeVars, webVars, chartVars, mailVars>>

\* what the requests of get_feed_items meet, and the idle times tried: none,
\* and a second less than each refresh interval
FeedOutcomes == {"ok", "http404"}
FeedWaits == {0} \cup {GetRefreshInterval(p) - 1 : p \in 1..3}

GetFeedStart == \E cfg \in FeedConfigs : GetFeedItems(cfg)
GetFeedTry == \E o \in FeedOutcomes, lag \in Lags : GetFeedAttempt(o, lag)
GetFeedEnd == \E doc \in FeedDocs : GetFeedFinish(doc)
FeedWaiting == \E d \in FeedWaits : FeedIdle(d)

(***************************************************************************)
(* web_scraper.WebScraper.fetch_depth_chart                                *)
(***************************************************************************)
\* config.DEPTH_CHART_CONFIG['cache_duration'] and
\* config.WEB_SCRAPING_CONFIG['ourlads_depth_chart_url']
DEPTH_CHART_CACHE_DURATION == 3600
OURLADS_DEPTH_CHART_URL == "https://www.ourlads.com/ncaa-football-depth-charts/"

\* {'Team1': {'QB': ['Player1']}} and {'Team2': {'RB': ['Player2']}}
Team1Chart ==
    (<<"T","e","a","m","1">> :>
        (<<"Q","B">> :> << <<"P","l","a","y","e","r","1">> >>))
Team2Chart ==
    (<<"T","e","a","m","2">> :>
        (<<"R","B">> :> << <<"P","l","a","y","e","r","2">> >>))
Charts == {Team1Chart, Team2Chart}

\* the pages the site serves, as the events html.parser makes of them: an
\* empty body, a depth chart page, a page with an unknown marked section (on
\* which HTMLParser raises)
EmptyPage == <<>>
ChartPage == <<WOpenTeam, WTextTeam, WTextQB, WTextJo>>
BrokenPage == <<WTextQB, SourceError>>
ChartPages == {EmptyPage, ChartPage, BrokenPage}

\* parser.feed(html_content) from event i on: the parser at the end, and
\* whether an exception left feed
RECURSIVE WebFeedFrom(_, _, _)
WebFeedFrom(p, page, i) ==
    IF i > Len(page) THEN [p |-> p, raised |-> FALSE]
    ELSE IF page[i].type = "error" THEN [p |-> p, raised |-> TRUE]
    ELSE IF page[i].type = "start"
         THEN WebFeedFrom(WebHandleStarttag(p, page[i].tag, page[i].attrs), page, i + 1)
         ELSE WebFeedFrom(WebHandleData(p, page[i].data), page, i + 1)

\* a cache test that looks at the age of the cache only
ChartCacheFreshByAge(current_time, cache_time, cache) ==
    current_time - cache_time < DEPTH_CHART_CACHE_DURATION

\* a cache test that never holds
ChartCacheNeverFresh(current_time, cache_time, cache) == FALSE

\* `current_time - self.depth_chart_cache_time < cache_duration and
\* self.depth_chart_cache`
ChartCacheFresh(current_time, cache_time, cache) ==
    current_time - cache_time < DEPTH_CHART_CACHE_DURATION /\ DictTruthy(cache)

\* a fallback that forgets the cache
ChartFallbackEmpty(cache) == <<>>

\* `if self.depth_chart_cache: return self.depth_chart_cache` / `return {}`
ChartFallback(cache) == IF DictTruthy(cache) THEN cache ELSE <<>>

\* a caller fills the cache: with the current time as its timestamp, or 0
SetCache(chart, stamped) ==
    /\ fetcher = "WebScraper"
    /\ cpc \in {"idle", "done"}
    /\ cpc' = "idle"
    /\ depth_chart_cache' = chart
    /\ depth_chart_cache_time' = IF stamped THEN now ELSE 0
    /\ UNCHANGED <<ctime, cresult, cbefore, cfetches, fetchVars, clockVars,
                   scrapeVars, webVars, feedVars, mailVars>>

\* fetch_depth_chart up to the cache test: return the cache or enter fetch_html
FetchDepthChart ==
    /\ fetcher = "WebScraper"
    /\ cpc = "idle"
    /\ ncalls <= MaxChartCalls
    /\ LET current_time == now
       IN  /\ ctime' = current_time
           /\ cbefore' = [cache |-> depth_chart_cache,
                          time |-> depth_chart_cache_time, got |-> "unset"]
           /\ IF ChartCacheFresh(current_time, depth_chart_cache_time,
                                 depth_chart_cache)
              THEN /\ cpc' = "done"
                   /\ cresult' = depth_chart_cache
                   /\ cfetches' = 0
                   /\ UNCHANGED fetchVars
              ELSE /\ cpc' = "fetching"
                   /\ cresult' = cresult
                   /\ cfetches' = 1
                   /\ LoopEnter(OURLADS_DEPTH_CHART_URL)
    /\ ncalls' = ncalls + 1
    /\ UNCHANGED <<depth_chart_cache, depth_chart_cache_time, fetcher, now,
                   last_request_time, limited, scrapeVars, webVars, feedVars,
                   mailVars>>

\* one iteration of the loop of the fetch_html that fetch_depth_chart called
ChartAttempt(o, lag) ==
    /\ cpc = "fetching"
    /\ WebFetchIteration(o, lag)
    /\ UNCHANGED <<chartVars, scrapeVars, webVars, feedVars, mailVars>>

\* fetch_depth_chart after fetch_html returned, page being the body when one
\* was fetched: fall back on the cache, or parse the page and replace the cache
ChartFinish(page) ==
    /\ cpc = "fetching"
    /\ fpc = "done"
    /\ fresult = None => page = EmptyPage
    /\ IF fresult = None \/ page = EmptyPage
       THEN /\ cresult' = ChartFallback(depth_chart_cache)
            /\ cbefore' = [cbefore EXCEPT
                   !.got = IF fresult = None THEN "none" ELSE "empty"]
            /\ UNCHANGED <<depth_chart_cache, depth_chart_cache_time>>
       ELSE LET fed == WebFeedFrom(NewWebParser, page, 1)
            IN  IF fed.raised
                THEN /\ cresult' = ChartFallback(depth_chart_cache)
                     /\ cbefore' = [cbefore EXCEPT !.got = "raised"]
                     /\ UNCHANGED <<depth_chart_cache, depth_chart_cache_time>>
                ELSE /\ depth_chart_cache' = fed.p.depth_chart
                     /\ depth_chart_cache_time' = ctime
                     /\ cresult' = fed.p.depth_chart
                     /\ cbefore' = [cbefore EXCEPT !.got = "parsed"]
    /\ cpc' = "done"
    /\ fpc' = "idle"
    /\ calls' = <<>>
    /\ met' = <<>>
    /\ retries' = 0
    /\ sleeps' = 0
    /\ fresult' = None
    /\ UNCHANGED <<furl, conn, ctime, cfetches, clockVars, scrapeVars, webVars,
                   feedVars, mailVars>>

\* the caller comes back d seconds after a call of fetch_depth_chart returned
ChartIdle(d) ==
    /\ fetcher = "WebScraper"
    /\ cpc = "done"
    /\ cpc' = "idle"
    /\ now' = now + d
    /\ UNCHANGED <<depth_chart_cache, depth_chart_cache_time, ctime, cresult, cbefore,
                   cfetches, fetchVars, fetcher, ncalls, last_request_time, limited,
                   scrapeVars, webVars, feedVars, mailVars>>

ChartOutcomes == {"ok", "http404", "timeout"}
ChartWaits == {0, DEPTH_CHART_CACHE_DURATION - 1}

CacheFilled == \E chart \in Charts, stamped \in BOOLEAN : SetCache(chart, stamped)
ChartStart == FetchDepthChart
ChartTry == \E o \in ChartOutcomes, lag \in Lags : ChartAttempt(o, lag)
ChartEnd == \E page \in ChartPages : ChartFinish(page)
ChartWaiting == \E d \in ChartWaits : ChartIdle(d)

(***************************************************************************)
(* email_delivery.EmailDelivery.send_email                                 *)
(***************************************************************************)
\* the values config.EMAIL_CONFIG can take: each text field empty or set, the
\* port 0 or 587
EmailConfigs ==
    [enabled : BOOLEAN, host : {"", "smtp.gmail.com"}, port : {0, 587},
     username : {"", "user"}, password : {"", "secret"}, to_email : {"", "to@x"},
     use_tls : BOOLEAN, use_ssl : BOOLEAN]

\* a validation that accepts every configuration
ValidateConfigLax(c) == TRUE

\* _validate_config: `not self.config.get(field)` for each required field
ValidateConfig(c) ==
    /\ c.host # ""
    /\ c.port # 0
    /\ c.username # ""
    /\ c.password # ""
    /\ c.to_email # ""

\* STARTTLS whenever use_tls is set
UsesStartTlsAlways(c) == c.use_tls

\* `if use_tls and not use_ssl`
UsesStartTls(c) == c.use_tls /\ ~c.use_ssl

\* what a step of send_email can meet: success, SMTPAuthenticationError,
\* another SMTPException, another exception
StepOutcomes == {"ok", "auth", "smtp", "error"}

\* send_email up to the end of the two configuration checks
SendEmailCall ==
    /\ epc = "idle"
    /\ smtp' = <<>>
    /\ IF ~econfig.enabled
       THEN epc' = "done" /\ eresult' = Some(FALSE)
       ELSE IF ~ValidateConfig(econfig)
            THEN epc' = "done" /\ eresult' = Some(FALSE)
            ELSE epc' = "prepare" /\ eresult' = eresult
    /\ UNCHANGED <<econfig, scrapeVars, webVars, fetchVars, clockVars, feedVars,
                   chartVars>>

\* building the message (headers, bodies, attachments), inside the try
PrepareMessage(out) ==
    /\ epc = "prepare"
    /\ IF out = "ok"
       THEN epc' = "connect" /\ eresult' = eresult
       ELSE epc' = "done" /\ eresult' = Some(FALSE)
    /\ UNCHANGED <<econfig, smtp, scrapeVars, webVars, fetchVars, clockVars, feedVars,
                   chartVars>>

\* one call on smtplib at position pc, meeting out; every exception is caught
\* and makes send_email return False
SmtpCall(pc, op, out, next) ==
    /\ epc = pc
    /\ smtp' = Append(smtp, [op |-> op, out |-> out])
    /\ IF out = "ok"
       THEN /\ epc' = next
            /\ eresult' = IF next = "done" THEN Some(TRUE) ELSE eresult
       ELSE /\ epc' = "done"
            /\ eresult' = Some(FALSE)
    /\ UNCHANGED <<econfig, scrapeVars, webVars, fetchVars, clockVars, feedVars,
                   chartVars>>

\* smtplib.SMTP_SSL(host, port) or smtplib.SMTP(host, port)
Connect(out) ==
    SmtpCall("connect", IF econfig.use_ssl THEN "SMTP_SSL" ELSE "SMTP", out,
             IF UsesStartTls(econfig) THEN "starttls" ELSE "login")

StartTls(out) == SmtpCall("starttls", "starttls", out, "login")
Login(out) == SmtpCall("login", "login", out, "send")
SendMessage(out) == SmtpCall("send", "send_message", out, "quit")
Quit(out) == SmtpCall("quit", "quit", out, "done")

MailStart == SendEmailCall
MailPrepare == \E out \in {"ok", "error"} : PrepareMessage(out)
MailConnect == \E out \in StepOutcomes \ {"auth"} : Connect(out)
MailStartTls == \E out \in StepOutcomes \ {"auth"} : StartTls(out)
MailLogin == \E out \in StepOutcomes : Login(out)
MailSend == \E out \in StepOutcomes \ {"auth"} : SendMessage(out)
MailQuit == \E out \in StepOutcomes \ {"auth"} : Quit(out)

(***************************************************************************)
(* Specifications.                                                         *)
(***************************************************************************)
ScrapeInit ==
    /\ phase = "idle"
    /\ html = "unset"
    /\ parser = NoParser
    /\ nfed = 0
    /\ log = ZeroLog
    /\ result = <<>>
    /\ outcome = "none"
    /\ run = 1
    /\ result1 = <<>>
    /\ awaiting = FALSE
    /\ unpaired = <<>>
    /\ lastSlug = None
    /\ broke = FALSE
    /\ lastKind = "none"
    /\ captured = 0
    /\ anchors = 0
    /\ sinceOpen = 0

WebInit ==
    /\ wparser = NewWebParser
    /\ wfed = <<>>
    /\ iparser = NewInjuryParser
    /\ ifed = 0
    /\ ilast = None

FetchInit ==
    /\ fpc = "idle"
    /\ furl = ""
    /\ calls = <<>>
    /\ retries = 0
    /\ sleeps = 0
    /\ conn = "unset"
    /\ met = <<>>
    /\ fresult = None

\* a fresh instance of class f, constructed at time StartTime
ClockInit(f) ==
    /\ fetcher = f
    /\ ncalls = 1
    /\ now = StartTime
    /\ last_request_time = 0
    /\ limited = [n |-> 0, prev |-> None, at |-> None, slept |-> 0]

\* RSSFeedHandler.__init__
FeedInit ==
    /\ feeds_cache = <<>>
    /\ last_fetch_times = <<>>
    /\ gpc = "idle"
    /\ gcfg = NoFeedConfig
    /\ gtime = 0
    /\ gresult = <<>>
    /\ gfetches = 0
    /\ ghist = NoFeedHistory

\* WebScraper.__init__
ChartInit ==
    /\ depth_chart_cache = <<>>
    /\ depth_chart_cache_time = 0
    /\ cpc = "idle"
    /\ ctime = 0
    /\ cresult = <<>>
    /\ cbefore = [cache |-> <<>>, time |-> 0, got |-> "unset"]
    /\ cfetches = 0

\* EmailDelivery.__init__ with configuration c
MailInit(c) ==
    /\ econfig = c
    /\ epc = "idle"
    /\ smtp = <<>>
    /\ eresult = None

AuxInit == FeedInit /\ ChartInit /\ MailInit(DefaultEmailConfig)

Init == ScrapeInit /\ src = Streamed /\ WebInit /\ FetchInit
        /\ ClockInit("DepthChartScraper") /\ AuxInit
Next == StreamCall \/ StreamFeed \/ StreamEnd
Spec == Init /\ [][Next]_vars

InitTwice == ScrapeInit /\ src \in Sources /\ WebInit /\ FetchInit
             /\ ClockInit("DepthChartScraper") /\ AuxInit
NextTwice == TwiceCall \/ TwiceFeed \/ TwiceEnd \/ TwiceAgain
SpecTwice == InitTwice /\ [][NextTwice]_vars

NextWeb == WebStep
SpecWeb == Init /\ [][NextWeb]_vars

NextFetch == FetchStart \/ FetchCheck \/ FetchTry
SpecFetch == Init /\ [][NextFetch]_vars

\* the three fetch loops, called repeatedly on one instance while time passes
InitRetry == ScrapeInit /\ src = Streamed /\ WebInit /\ FetchInit
             /\ (\E f \in Fetchers : ClockInit(f)) /\ AuxInit
NextRetry == FetchStart \/ FetchCheck \/ FetchTry \/ WebFetchStart \/ WebFetchTry
             \/ FeedFetchStart \/ FeedFetchTry \/ FetchAgain \/ TimePasses
SpecRetry == InitRetry /\ [][NextRetry]_vars

\* get_feed_items called repeatedly on one handler while time passes
InitFeed == ScrapeInit /\ src = Streamed /\ WebInit /\ FetchInit
            /\ ClockInit("RSSFeedHandler") /\ AuxInit
NextFeed == GetFeedStart \/ GetFeedTry \/ GetFeedEnd \/ FeedWaiting
SpecFeed == InitFeed /\ [][NextFeed]_vars

\* fetch_depth_chart called repeatedly on one scraper while time passes
InitChart == ScrapeInit /\ src = Streamed /\ WebInit /\ FetchInit
             /\ ClockInit("WebScraper") /\ AuxInit
NextChart == CacheFilled \/ ChartStart \/ ChartTry \/ ChartEnd \/ ChartWaiting
SpecChart == InitChart /\ [][NextChart]_vars

\* send_email called once under each configuration
InitMail == ScrapeInit /\ src = Streamed /\ WebInit /\ FetchInit
            /\ ClockInit("DepthChartScraper") /\ FeedInit /\ ChartInit
            /\ (\E c \in EmailConfigs : MailInit(c))
NextMail == MailStart \/ MailPrepare \/ MailConnect \/ MailStartTls \/ MailLogin
            \/ MailSend \/ MailQuit
SpecMail == InitMail /\ [][NextMail]_vars

NextInjury == InjuryStep
SpecInjury == Init /\ [][NextInjury]_vars

(***************************************************************************)
(* Properties.                                                             *)
(***************************************************************************)
\* the parse of the current call has run to the end of the stream
ParsedToEnd == phase = "done" /\ html = "content" /\ ~broke

\* a is a subsequence of b
RECURSIVE IsSubseq(_, _)
IsSubseq(a, b) ==
    IF a = <<>> THEN TRUE
    ELSE IF b = <<>> THEN FALSE
    ELSE IF Head(a) = Head(b) THEN IsSubseq(Tail(a), Tail(b))
    ELSE IsSubseq(a, Tail(b))

\* the elements of t at the indices in S, in order
Pick(t, S) ==
    LET F[i \in 0..Len(t)] ==
            IF i = 0 THEN <<>>
            ELSE IF i \in S THEN Append(F[i - 1], t[i]) ELSE F[i - 1]
    IN  F[Len(t)]

\* the fixed markup starts: label container, label text, matching anchor
PairingDoc ==
    /\ src.kind = "content"
    /\ Len(src.events) >= 3
    /\ IsLabelOpen(src.events[1])
    /\ IsLabelText(src.events[2])
    /\ IsMatchingAnchor(src.events[3])

\* C1 (pairing correctness): a fresh parser fed an open label div, a text T that
\* is not blank and a matching depth-chart anchor has emitted exactly one team
\* record, {team: T trimmed, slug: the anchor's identifier}, and holds no pending
\* name.
C1_PairingCorrectness ==
    (PairingDoc /\ nfed = 3) =>
        /\ parser.teams = <<[team |-> TextCore(src.events[2]),
                             slug |-> AnchorSlug(src.events[3])]>>
        /\ parser.pending_team_name = None

C1_Witness ==
    /\ PairingDoc
    /\ nfed = 3
    /\ phase = "parsing"
    /\ src.events[2] = TextA
    /\ parser.teams = <<[team |-> <<"A","l">>, slug |-> <<"a","l">>]>>

\* C2 (overwrite tolerance): buffering a label text while an earlier one is still
\* unpaired logs the overwrite warning, emits nothing and does not stop the
\* parse; and when a matching anchor follows two or more label texts buffered
\* with no matching anchor between them, exactly one record is appended, made of
\* the last of these texts and the anchor's identifier, the pending name is
\* cleared and the parse goes on.
C2_OverwriteTolerance ==
    [][ /\ (phase = "parsing" /\ Len(unpaired) >= 1
              /\ Len(unpaired') = Len(unpaired) + 1) =>
                /\ log'.overwrite = log.overwrite + 1
                /\ parser'.teams = parser.teams
                /\ parser'.pending_team_name = Some(unpaired'[Len(unpaired')])
                /\ phase' = "parsing"
        /\ (phase = "parsing" /\ Len(unpaired) >= 2 /\ unpaired' = <<>>) =>
                /\ parser'.teams =
                       Append(parser.teams, [team |-> unpaired[Len(unpaired)],
                                             slug |-> lastSlug'[1]])
                /\ parser'.pending_team_name = None
                /\ phase' = "parsing"
      ]_vars

C2_Witness ==
    /\ phase = "parsing"
    /\ nfed = 5
    /\ log.overwrite = 1
    /\ unpaired = <<>>
    /\ parser.teams = <<[team |-> <<"B"," ","U">>, slug |-> <<"b">>]>>

\* C3: every record of parser.teams and every record returned by
\* scrape_depth_chart has a non-empty team and a non-empty slug.
C3_RecordsComplete ==
    /\ \A i \in 1..Len(parser.teams) :
           parser.teams[i].team # <<>> /\ parser.teams[i].slug # <<>>
    /\ \A i \in 1..Len(result) :
           result[i].team # <<>> /\ result[i].slug # <<>>

C3_Witness ==
    /\ phase = "done"
    /\ Len(result) = 2
    /\ \E i \in 1..Len(parser.teams) : parser.teams[i].slug = <<"a","l">>

\* C4 (dedup correctness): the list returned after de-duplication and validation
\* holds, of the records sharing a slug, only the first in input order, and its
\* length is the number of distinct slugs among the valid records of the input.
C4_DedupFirstWins ==
    ParsedToEnd =>
        LET t == parser.teams
            valid == {i \in 1..Len(t) : t[i].team # <<>> /\ t[i].slug # <<>>}
            first == {i \in 1..Len(t) : \A j \in 1..(i - 1) : t[j].slug # t[i].slug}
        IN  /\ result = Pick(t, first \cap valid)
            /\ Len(result) = Cardinality({t[i].slug : i \in valid})

C4_Witness ==
    /\ ParsedToEnd
    /\ Len(parser.teams) = 3
    /\ Len(result) = 2
    /\ parser.teams[1].slug = parser.teams[3].slug
    /\ parser.teams[1].team # parser.teams[3].team

\* C5 (order preservation): the returned list is a subsequence of the emitted
\* list, so surviving records keep their document order.
C5_OrderPreserved == ParsedToEnd => IsSubseq(result, parser.teams)

C5_Witness ==
    /\ ParsedToEnd
    /\ Len(parser.teams) = 3
    /\ Len(result) = 2
    /\ result[1] = parser.teams[1]
    /\ result[2] = parser.teams[3]
    /\ result[1] # result[2]

C7_Idempotent ==
    /\ (run = 2 /\ phase = "parsing" /\ nfed = 0) =>
           /\ parser.teams = <<>>
           /\ parser.pending_team_name = None
           /\ parser.in_team_name = FALSE
           /\ parser.current_link = None
    /\ (run = 2 /\ phase = "done") => result = result1

C7_Witness ==
    /\ run = 2
    /\ phase = "done"
    /\ Len(result) = 1
    /\ result1 = result

\* C8 (zero match): a parse that runs to the end of the stream without a record
\* returns the empty list with the "no teams" diagnostic and no exception; a
\* failed fetch and an exception during the parse also return the empty list,
\* each with its own diagnostic, and no call logs two of the three.
C8_ZeroMatchDiagnostic ==
    /\ (ParsedToEnd /\ parser.teams = <<>>) =>
           /\ result = <<>> /\ outcome = "returned"
           /\ log.noTeams = 1 /\ log.fetchFailed = 0 /\ log.parseException = 0
    /\ (ParsedToEnd /\ parser.teams # <<>>) => log.noTeams = 0
    /\ (phase = "done" /\ html \in {"none", "empty"}) =>
           /\ result = <<>> /\ outcome = "returned"
           /\ log.fetchFailed = 1 /\ log.noTeams = 0 /\ log.parseException = 0
    /\ (phase = "done" /\ broke) =>
           /\ result = <<>> /\ outcome = "returned"
           /\ log.parseException = 1 /\ log.noTeams = 0 /\ log.fetchFailed = 0

C8_Witness ==
    /\ ParsedToEnd
    /\ nfed >= 3
    /\ parser.teams = <<>>
    /\ parser.pending_team_name # None
    /\ log.noTeams = 1

\* C9 (starter only): when a team heading, the team's name, a position code and
\* two player names have been fed in this order, the chart holds for that team
\* and position the first player alone.
C9_StarterOnly ==
    (Len(wfed) >= 5
        /\ SubSeq(wfed, Len(wfed) - 4, Len(wfed))
               = <<WOpenTeam, WTextTeam, WTextQB, WTextJo, WTextJi>>) =>
        LET dc == wparser.depth_chart
        IN  /\ <<"A","l","a">> \in DOMAIN dc
            /\ <<"Q","B">> \in DOMAIN dc[<<"A","l","a">>]
            /\ dc[<<"A","l","a">>][<<"Q","B">>] = <<<<"J","o">>>>

\* C10 (whitelist and connection gate): a request is issued only for the allowed
\* URL, after the whitelist check and then a connection check that succeeded;
\* for another URL fetch_html returns None after the whitelist check alone, and
\* after a failed connection check it returns None without a request.
C10_FetchGate ==
    /\ \A i \in 1..Len(calls) :
           calls[i] = "urlopen" =>
               /\ furl = ALLOWED_URL
               /\ i >= 3
               /\ calls[1] = "verify_url"
               /\ calls[2] = "verify_connection"
               /\ conn = "ok"
    /\ (fpc # "idle" /\ furl # ALLOWED_URL) =>
           (fpc = "done" /\ fresult = None /\ calls = <<"verify_url">>)
    /\ (conn \notin {"unset", "ok"}) =>
           /\ fpc = "done" /\ fresult = None
           /\ calls = <<"verify_url", "verify_connection">>

C10_Witness ==
    /\ fpc = "done"
    /\ fresult # None
    /\ calls = <<"verify_url", "verify_connection", "urlopen", "urlopen">>

(***************************************************************************)
(* The fetch loops: what the input is, read off the outcomes the requests  *)
(* met (not computed by the loop).                                         *)
(***************************************************************************)
\* max_retries of the loop of class f
MaxRetriesOf(f) ==
    CASE f = "DepthChartScraper" -> MaxRetries
      [] f = "WebScraper" -> WEB_MAX_RETRIES
      [] OTHER -> FEED_MAX_RETRIES

\* number of HTTP requests issued by the current call
Requests == Cardinality({i \in 1..Len(calls) : calls[i] = "urlopen"})

\* the HTTP statuses that end the fetch of class f at once
EndsFetch(f, o) ==
    IF f = "RSSFeedHandler"
    THEN o \in {"http404", "http410"}
    ELSE o \in {"http404", "http410", "http403"}

\* a failure after which the loop of class f tries again
RetryableFailure(f, o) == o # "ok" /\ ~EndsFetch(f, o)

\* the current call reached its retry loop
LoopEntered ==
    /\ fpc \in {"loop", "done"}
    /\ fetcher = "DepthChartScraper" => (furl = ALLOWED_URL /\ conn = "ok")

\* C11 (bounded retry): no call issues more than max_retries requests; when
\* every attempt of a call meets a retryable failure, the call issues exactly
\* max_retries requests, then stops and returns None.
C11_BoundedRetry ==
    /\ Requests <= MaxRetriesOf(fetcher)
    /\ (/\ LoopEntered
        /\ \A i \in 1..Len(met) : RetryableFailure(fetcher, met[i])
        /\ (fpc = "done" \/ Len(met) >= MaxRetriesOf(fetcher)))
       => /\ Requests = MaxRetriesOf(fetcher)
          /\ Len(met) = Requests
          /\ fpc = "done"
          /\ fresult = None

C11_Witness ==
    /\ fetcher = "RSSFeedHandler"
    /\ fpc = "done"
    /\ met = <<"urlerror", "http403", "timeout">>
    /\ Requests = 3
    /\ fresult = None

\* C12 (non-retryable HTTP errors): a request that meets 404, 410 or 403 (for
\* fetch_feed: 404 or 410) is the last request of its call; the call returns
\* None at once, and the only retry delays slept are those after the earlier,
\* retryable failures, so that such an error on the first attempt gives exactly
\* one request and no delay.
C12_NoRetryEndsFetch ==
    LoopEntered =>
        \A i \in 1..Len(met) :
            EndsFetch(fetcher, met[i]) =>
                /\ i = Len(met)
                /\ Requests = i
                /\ sleeps = i - 1
                /\ fpc = "done"
                /\ fresult = None

C12_Witness ==
    /\ fetcher = "WebScraper"
    /\ fpc = "done"
    /\ met = <<"http403">>
    /\ Requests = 1
    /\ sleeps = 0
    /\ fresult = None

\* C13 (retry until the first success): when the first k attempts of a call
\* meet retryable failures and attempt k+1 succeeds, the call returns the
\* content read by attempt k+1, after exactly k+1 requests and exactly k retry
\* delays, and issues no request after the success.
C13_RetryUntilSuccess ==
    LoopEntered =>
        \A k \in 0..(Len(met) - 1) :
            (/\ met[k + 1] = "ok"
             /\ \A i \in 1..k : RetryableFailure(fetcher, met[i]))
            => /\ k < MaxRetriesOf(fetcher)
               /\ Len(met) = k + 1
               /\ Requests = k + 1
               /\ sleeps = k
               /\ fpc = "done"
               /\ fresult = Some(Response(k + 1))

C13_Witness ==
    /\ fetcher = "RSSFeedHandler"
    /\ fpc = "done"
    /\ met = <<"timeout", "http500", "ok">>
    /\ Requests = 3
    /\ sleeps = 2
    /\ fresult = Some(Response(3))

\* rate_limit_delay of the scraper of class f
RateLimitDelayOf(f) ==
    IF f = "DepthChartScraper" THEN RATE_LIMIT_DELAY ELSE WEB_RATE_LIMIT_DELAY

\* C14 (rate limiting): on an instance of either scraper, _rate_limit returns at
\* least rate_limit_delay seconds after its previous return and leaves the time
\* of its return in last_request_time; the first call on a fresh instance does
\* not sleep.  Every request follows a return of _rate_limit, so two
\* consecutive requests of an instance are at least rate_limit_delay apart.
C14_RateLimit ==
    fetcher \in {"DepthChartScraper", "WebScraper"} =>
        /\ limited.n = 0 => last_request_time = 0
        /\ limited.n >= 1 => last_request_time = limited.at[1]
        /\ limited.n = 1 => limited.slept = 0
        /\ limited.n >= 2 =>
               limited.at[1] - limited.prev[1] >= RateLimitDelayOf(fetcher)

C14_Witness ==
    /\ fetcher = "WebScraper"
    /\ ncalls = 2
    /\ Len(met) = 1
    /\ limited.n = 2
    /\ limited.slept = 1
    /\ limited.at[1] - limited.prev[1] = WEB_RATE_LIMIT_DELAY

(***************************************************************************)
(* The feed cache.                                                         *)
(***************************************************************************)
\* the refresh interval of each configured feed, by its priority: high for
\* priority 1, low for priority 3, the default without a priority
IntervalOfFeed(cfg) ==
    CASE cfg = FeedA -> FEED_REFRESH_HIGH
      [] cfg = FeedC -> FEED_REFRESH_LOW
      [] OTHER -> FEED_REFRESH_DEFAULT

\* the current call started with a cache entry for its URL and less than the
\* feed's refresh interval after the call that last fetched the URL successfully
StartedFresh ==
    /\ gpc # "idle"
    /\ ghist.pre.entry
    /\ ghist.pre.stamp # None
    /\ gtime - ghist.pre.stamp[1] < IntervalOfFeed(gcfg)

\* C15 (feed cache hit): a call of get_feed_items for a URL that has a cache
\* entry, made less than the feed's priority-based refresh interval after the
\* last successful fetch of that URL, returns the cached items without calling
\* fetch_feed; of two calls in a row for a URL within the interval, the first
\* having fetched, the second fetches nothing and returns the same items.
C15_FeedCacheHit ==
    /\ StartedFresh =>
           /\ gpc = "done"
           /\ gfetches = 0
           /\ ghist.returned = "unset"
           /\ gresult = ghist.pre.items
    /\ (/\ gpc = "done"
        /\ ghist.prev # None
        /\ ghist.prev[1].url = gcfg.url
        /\ ghist.prev[1].returned = "content"
        /\ gtime - ghist.prev[1].time < IntervalOfFeed(gcfg))
       => /\ ghist.prev[1].fetches = 1
          /\ gfetches = 0
          /\ gresult = ghist.prev[1].result

C15_Witness ==
    /\ gpc = "done"
    /\ gcfg = FeedC
    /\ ghist.ncalls = 2
    /\ ghist.prev # None
    /\ ghist.prev[1].url = gcfg.url
    /\ ghist.prev[1].fetches = 1
    /\ gtime - ghist.prev[1].time = FEED_REFRESH_LOW - 1
    /\ gfetches = 0
    /\ gresult = <<Entry("Injury update", "u1")>>

\* C16 (stale feed cache): when get_feed_items has to fetch (no fresh entry) and
\* fetch_feed returns None, it returns the items cached before the call when
\* the URL has a cache entry, and the empty list when it has none; the cache
\* is left as it was.
C16_FeedStaleFallback ==
    (gpc = "done" /\ gfetches = 1 /\ ghist.returned = "none") =>
        /\ ghist.pre.entry => gresult = ghist.pre.items
        /\ ~ghist.pre.entry => gresult = <<>>
        /\ ghist.pre.entry <=> gcfg.url \in DOMAIN feeds_cache
        /\ ghist.pre.entry => feeds_cache[gcfg.url].items = ghist.pre.items

C16_Witness ==
    /\ gpc = "done"
    /\ gfetches = 1
    /\ ghist.returned = "none"
    /\ ghist.pre.entry
    /\ gtime - ghist.pre.stamp[1] >= IntervalOfFeed(gcfg)
    /\ gresult = <<Entry("", "u2")>>

(***************************************************************************)
(* The depth chart cache.                                                  *)
(***************************************************************************)
\* the cache held a chart when the current call started
StartedWithChart == cbefore.cache \in Charts

\* the cache is as it was when the current call started
CacheUntouched ==
    /\ depth_chart_cache = cbefore.cache
    /\ depth_chart_cache_time = cbefore.time

\* C17 (depth chart cache hit): a call of fetch_depth_chart made with a
\* non-empty cache, less than cache_duration seconds after the cache's
\* timestamp, returns the cache without an HTTP fetch and leaves the cache and
\* its timestamp unchanged.
C17_ChartCacheHit ==
    (/\ cpc # "idle"
     /\ StartedWithChart
     /\ ctime - cbefore.time < DEPTH_CHART_CACHE_DURATION)
    => /\ cpc = "done"
       /\ cfetches = 0
       /\ Requests = 0
       /\ cresult = cbefore.cache
       /\ CacheUntouched

C17_Witness ==
    /\ cpc = "done"
    /\ cbefore.cache = Team1Chart
    /\ ctime - cbefore.time = DEPTH_CHART_CACHE_DURATION - 1
    /\ cfetches = 0
    /\ cresult = Team1Chart

\* C18 (stale depth chart cache): when the cache is expired and the HTML fetch
\* fails, or parsing the page raises, fetch_depth_chart returns the stale
\* non-empty cache, and the empty mapping when the cache is empty; the cache
\* and its timestamp are not modified.
C18_ChartStaleFallback ==
    (cpc = "done" /\ cfetches = 1 /\ cbefore.got \in {"none", "raised"}) =>
        /\ StartedWithChart => cresult = cbefore.cache
        /\ ~StartedWithChart => DOMAIN cresult = {}
        /\ CacheUntouched

C18_Witness ==
    /\ cpc = "done"
    /\ cfetches = 1
    /\ cbefore.got = "raised"
    /\ cbefore.cache = Team2Chart
    /\ ctime - cbefore.time >= DEPTH_CHART_CACHE_DURATION
    /\ cresult = Team2Chart
    /\ CacheUntouched

(***************************************************************************)
(* The SMTP session.                                                       *)
(***************************************************************************)
\* the SMTP calls made so far, by name
SmtpOps == [i \in 1..Len(smtp) |-> smtp[i].op]

\* every required field of the configuration is set
ConfigComplete ==
    /\ econfig.host # ""
    /\ econfig.port # 0
    /\ econfig.username # ""
    /\ econfig.password # ""
    /\ econfig.to_email # ""

\* the session of a successful send under the configuration
FullSession ==
    <<IF econfig.use_ssl THEN "SMTP_SSL" ELSE "SMTP">>
    \o (IF econfig.use_tls /\ ~econfig.use_ssl THEN <<"starttls">> ELSE <<>>)
    \o <<"login", "send_message", "quit">>

\* C19 (SMTP session): with email disabled or a required field empty,
\* send_email makes no SMTP call and returns False.  Otherwise the SMTP calls
\* made are always an initial part of: connect (SMTP_SSL iff use_ssl, else
\* SMTP), starttls (iff use_tls and not use_ssl), login, send_message, quit;
\* send_email returns True exactly when the whole session was made and no call
\* raised; when login raises an authentication error no send_message follows
\* and the result is False.
C19_SmtpSession ==
    /\ (~econfig.enabled \/ ~ConfigComplete) =>
           /\ smtp = <<>>
           /\ epc \in {"idle", "done"}
           /\ epc = "done" => eresult = Some(FALSE)
    /\ Len(smtp) <= Len(FullSession)
    /\ SmtpOps = SubSeq(FullSession, 1, Len(smtp))
    /\ (epc = "done" /\ SmtpOps = FullSession
        /\ \A i \in 1..Len(smtp) : smtp[i].out = "ok") => eresult = Some(TRUE)
    /\ eresult = Some(TRUE) =>
           /\ epc = "done"
           /\ SmtpOps = FullSession
           /\ \A i \in 1..Len(smtp) : smtp[i].out = "ok"
    /\ \A i \in 1..Len(smtp) :
           (smtp[i].op = "login" /\ smtp[i].out = "auth") =>
               /\ i = Len(smtp)
               /\ epc = "done"
               /\ eresult = Some(FALSE)

C19_Witness ==
    /\ epc = "done"
    /\ econfig.use_tls
    /\ ~econfig.use_ssl
    /\ SmtpOps = <<"SMTP", "starttls", "login", "send_message", "quit">>
    /\ eresult = Some(TRUE)

(***************************************************************************)
(* The anchor transition of depth_chart_scraper.DepthChartParser.          *)
(***************************************************************************)
\* the step consumes a matching anchor
AnchorStep == phase = "parsing" /\ nfed' = nfed + 1 /\ lastKind' = "anchor"

\* C20 (anchor transition): a matching anchor sets current_link to the
\* identifier it carries; when a name is pending it appends exactly one record,
\* made of that name and the identifier, and clears the pending name; when no
\* name is pending it appends nothing.  So a matching anchor met when no label
\* text was buffered since the previous matching anchor appends nothing: a
\* buffered name is paired with the first matching anchor after it only, and
\* two matching anchors with no label text between them append one record at
\* most.
C20_AnchorTransition ==
    [][ AnchorStep =>
            /\ phase' = "parsing"
            /\ parser'.current_link = lastSlug'
            /\ parser'.pending_team_name = None
            /\ Truthy(parser.pending_team_name) =>
                   parser'.teams =
                       Append(parser.teams,
                              [team |-> parser.pending_team_name[1],
                               slug |-> lastSlug'[1]])
            /\ ~Truthy(parser.pending_team_name) => parser'.teams = parser.teams
            /\ unpaired = <<>> => parser'.teams = parser.teams
      ]_vars

C20_Witness ==
    /\ phase = "parsing"
    /\ nfed = 4
    /\ lastKind = "anchor"
    /\ lastSlug = Some(<<"b">>)
    /\ parser.current_link = Some(<<"b">>)
    /\ parser.pending_team_name = None
    /\ parser.teams = <<[team |-> <<"A","l">>, slug |-> <<"a","l">>]>>

(***************************************************************************)
(* Label capture, closing tags and the end of the stream in                *)
(* depth_chart_scraper.                                                    *)
(***************************************************************************)
\* the step feeds one event to the parser
EventStep == phase = "parsing" /\ nfed' = nfed + 1

\* C21 (label capture): after a label container is opened, the first text that
\* is not blank and arrives while the parser still awaits the label is stored,
\* trimmed, as pending_team_name and the parser stops awaiting, so one text at
\* most is captured per opening; a blank text changes neither the pending name
\* nor the awaiting state; a text met while not awaiting never changes the
\* pending name.
C21_LabelCapture ==
    [][ EventStep =>
            /\ parser'.in_team_name = awaiting'
            /\ lastKind' = "open" => parser'.in_team_name
            /\ lastKind' = "label" =>
                   /\ parser.in_team_name
                   /\ parser'.pending_team_name = Some(unpaired'[Len(unpaired')])
                   /\ ~parser'.in_team_name
                   /\ parser'.teams = parser.teams
            /\ sinceOpen' <= 1
            /\ lastKind' = "blank" =>
                   /\ parser'.pending_team_name = parser.pending_team_name
                   /\ parser'.in_team_name = parser.in_team_name
            /\ lastKind' = "stray" =>
                   /\ ~parser.in_team_name
                   /\ parser'.pending_team_name = parser.pending_team_name
            /\ (parser'.pending_team_name # parser.pending_team_name
                  /\ parser'.pending_team_name # None) => lastKind' = "label"
      ]_vars

\* label container, " Al\n", "B U": the second text is not captured
C21_Witness ==
    /\ phase = "parsing"
    /\ nfed = 3
    /\ lastKind = "stray"
    /\ sinceOpen = 1
    /\ captured = 1
    /\ parser.pending_team_name = Some(<<"A","l">>)
    /\ ~parser.in_team_name

\* C22 (close-tag frame): closing a label container leaves the parser not
\* awaiting a label and changes neither pending_team_name nor teams nor
\* current_link; a name buffered before the close is still paired with a
\* matching anchor that arrives right after it.
C22_CloseTagFrame ==
    [][ /\ (EventStep /\ lastKind' = "close") =>
                /\ ~parser'.in_team_name
                /\ parser'.pending_team_name = parser.pending_team_name
                /\ parser'.teams = parser.teams
                /\ parser'.current_link = parser.current_link
                /\ phase' = "parsing"
        /\ (AnchorStep /\ lastKind = "close" /\ unpaired # <<>>) =>
                /\ parser'.teams =
                       Append(parser.teams, [team |-> unpaired[Len(unpaired)],
                                             slug |-> lastSlug'[1]])
                /\ parser'.pending_team_name = None
      ]_vars

\* label container, "B U", closing div: the name stays buffered
C22_Witness ==
    /\ phase = "parsing"
    /\ nfed = 3
    /\ lastKind = "close"
    /\ unpaired = << <<"B"," ","U">> >>
    /\ parser.pending_team_name = Some(<<"B"," ","U">>)
    /\ ~parser.in_team_name
    /\ parser.teams = <<>>

\* parser.feed has returned and the rest of scrape_depth_chart runs
EndOfStreamStep == phase = "parsing" /\ phase' = "done" /\ nfed' = nfed

\* C23 (end of stream with an unpaired label): when a label text is still
\* buffered at the end of the stream, no record is made of it (teams is what it
\* was after the last event and every record returned comes from teams) and
\* the "unpaired team name" warning is logged once; when none is buffered the
\* warning is not logged.
C23_UnpairedAtEnd ==
    [][ EndOfStreamStep =>
            /\ (unpaired # <<>>) = Truthy(parser.pending_team_name)
            /\ parser'.teams = parser.teams
            /\ IsSubseq(result', parser.teams)
            /\ unpaired # <<>> =>
                   /\ log'.unpaired = 1
                   /\ \A i \in 1..Len(result') :
                          result'[i].team # unpaired[Len(unpaired)]
                            \/ \E j \in 1..Len(parser.teams) : parser.teams[j] = result'[i]
            /\ unpaired = <<>> => log'.unpaired = 0
      ]_vars

\* one team paired, then "B U" buffered and the stream ends
C23_Witness ==
    /\ phase = "done"
    /\ html = "content"
    /\ ~broke
    /\ unpaired = << <<"B"," ","U">> >>
    /\ parser.pending_team_name = Some(<<"B"," ","U">>)
    /\ log.unpaired = 1
    /\ result = <<[team |-> <<"A","l">>, slug |-> <<"a","l">>]>>

(***************************************************************************)
(* The text transition of web_scraper.DepthChartParser.                    *)
(***************************************************************************)
\* the position-code predicate of the specification: 2 to 4 characters, all
\* of them uppercase letters
PositionCode(t) == Len(t) \in 2..4 /\ \A i \in 1..Len(t) : IsUpperChar(t[i])

\* the step feeds a text that is not blank to the parser
WebTextStep ==
    /\ Len(wfed') = Len(wfed) + 1
    /\ wfed'[Len(wfed')].type = "data"
    /\ Strip(wfed'[Len(wfed')].data) # <<>>

\* the players recorded for (team, pos) in depth chart dc
PlayersAt(dc, team, pos) ==
    IF team \in DOMAIN dc /\ pos \in DOMAIN dc[team] THEN dc[team][pos] ELSE <<>>

\* C24 (position-code classification): a text that is not blank sets
\* current_position, and records nothing, exactly when it is a position code;
\* any other such text records a player under (current_team, current_position)
\* when both are set, and records nothing otherwise.
C24_PositionCodeClassification ==
    [][ WebTextStep =>
            LET t == Strip(wfed'[Len(wfed')].data)
            IN  IF PositionCode(t)
                THEN /\ wparser'.current_position = Some(t)
                     /\ wparser'.depth_chart = wparser.depth_chart
                ELSE /\ wparser'.current_position = wparser.current_position
                     /\ IF Truthy(wparser.current_team) /\ Truthy(wparser.current_position)
                        THEN PlayersAt(wparser'.depth_chart, wparser.current_team[1],
                                       wparser.current_position[1])
                               = Append(PlayersAt(wparser.depth_chart,
                                                  wparser.current_team[1],
                                                  wparser.current_position[1]), t)
                        ELSE wparser'.depth_chart = wparser.depth_chart
      ]_vars

\* C25: no handler of web_scraper.DepthChartParser gives current_team a value
\* (handle_starttag only resets it, handle_data only reads it), so whatever
\* events a fresh parser is fed, current_team and current_position stay None
\* and depth_chart stays empty.
C25_TeamNeverSet ==
    /\ wparser.current_team = None
    /\ wparser.current_position = None
    /\ wparser.depth_chart = <<>>

\* a team heading, the team's name, a position code and a player have been fed
C25_Witness ==
    /\ wfed = <<WOpenTeam, WTextTeam, WTextQB, WTextJo>>
    /\ wparser.current_team = None
    /\ wparser.depth_chart = <<>>

(***************************************************************************)
(* Conservation of label texts in depth_chart_scraper.DepthChartParser.    *)
(***************************************************************************)
\* C26 (label conservation): at every point of a parse, the number of label
\* texts stored into pending_team_name so far equals len(teams) plus the number
\* of overwrite warnings plus one when a name is pending; so len(teams) exceeds
\* neither the number of label texts captured nor the number of matching
\* anchors met; and teams only grows: an event leaves the records already in
\* teams in place and unmodified.
C26_LabelConservation ==
    [][ EventStep =>
            /\ captured' = Len(parser'.teams) + log'.overwrite
                             + (IF parser'.pending_team_name # None THEN 1 ELSE 0)
            /\ Len(parser'.teams) <= captured'
            /\ Len(parser'.teams) <= anchors'
            /\ Len(parser'.teams) >= Len(parser.teams)
            /\ SubSeq(parser'.teams, 1, Len(parser.teams)) = parser.teams
      ]_vars

\* three label texts captured: one overwritten, one paired, one pending
C26_Witness ==
    /\ phase = "parsing"
    /\ captured = 3
    /\ anchors = 2
    /\ log.overwrite = 1
    /\ Len(parser.teams) = 1
    /\ parser.pending_team_name # None

(***************************************************************************)
(* The two maps of news_aggregator.RSSFeedHandler.                         *)
(***************************************************************************)
\* the step changes feeds_cache or last_fetch_times
FeedMapsChange ==
    <<feeds_cache, last_fetch_times>>' # <<feeds_cache, last_fetch_times>>

\* feeds_cache and last_fetch_times have the same keys and the same times
FeedMapsAgree ==
    /\ DOMAIN feeds_cache = DOMAIN last_fetch_times
    /\ \A url \in DOMAIN feeds_cache :
           feeds_cache[url].fetched_at = last_fetch_times[url]

\* C27: after any sequence of get_feed_items calls on a fresh handler, the URLs
\* with an entry in feeds_cache are the URLs with an entry in last_fetch_times
\* and each entry's fetched_at is the URL's last_fetch_times; a call served
\* from the cache or whose fetch fails changes neither map (the maps change
\* only at the end of a call whose fetch returned content).
C27_FeedMapsAgree ==
    /\ []FeedMapsAgree
    /\ [][ FeedMapsChange =>
               /\ gpc = "fetching"
               /\ gpc' = "done"
               /\ ghist'.returned = "content"
         ]_vars

\* two feeds are cached and the second call has just returned
C27_Witness ==
    /\ gpc = "done"
    /\ ghist.ncalls = 2
    /\ DOMAIN feeds_cache = {FeedA.url, FeedB.url}
    /\ DOMAIN last_fetch_times = {FeedA.url, FeedB.url}
    /\ feeds_cache[FeedA.url].fetched_at # feeds_cache[FeedB.url].fetched_at

\* C28: the stale-cache fallback of get_feed_items covers a failed fetch only.
\* When the fetch returns a body that is not empty and does not parse
\* (parse_rss_feed returns []), the URL's cache entry is replaced by one with
\* no items and its fetch time is set to the time of the call, so the items
\* cached before are lost; and the next call for the URL within the refresh
\* interval fetches nothing and returns the empty list.
C28_ParseFailureEmptiesCache ==
    /\ (gpc = "done" /\ ghist.body = "malformed") =>
           /\ gfetches = 1
           /\ gresult = <<>>
           /\ gcfg.url \in DOMAIN feeds_cache
           /\ feeds_cache[gcfg.url].items = <<>>
           /\ feeds_cache[gcfg.url].fetched_at = gtime
           /\ last_fetch_times[gcfg.url] = gtime
    /\ (/\ gpc = "done"
        /\ ghist.prev # None
        /\ ghist.prev[1].url = gcfg.url
        /\ ghist.prev[1].body = "malformed"
        /\ gtime - ghist.prev[1].time < IntervalOfFeed(gcfg))
       => /\ gfetches = 0
          /\ gresult = <<>>

\* a feed cached with one item is fetched again after its interval and the
\* body does not parse
C28_Witness ==
    /\ gpc = "done"
    /\ ghist.body = "malformed"
    /\ ghist.pre.entry
    /\ ghist.pre.items = <<Entry("Injury update", "u1")>>
    /\ gtime - ghist.pre.stamp[1] >= IntervalOfFeed(gcfg)
    /\ feeds_cache[gcfg.url].items = <<>>
    /\ gresult = <<>>

(***************************************************************************)
(* Replacement of the depth chart cache.                                   *)
(***************************************************************************)
\* the cache is the chart the current call returned, stamped with the time read
\* at the start of the call
CacheReplaced ==
    /\ depth_chart_cache = cresult
    /\ depth_chart_cache_time = ctime

\* a call made while the cache is empty attempts an HTTP fetch, whatever the
\* age of the cache
EmptyCacheFetches == (cpc # "idle" /\ ~DictTruthy(cbefore.cache)) => cfetches = 1

\* C29 as stated: every fetch_depth_chart call whose HTTP fetch succeeds and
\* whose parse does not raise replaces depth_chart_cache with the newly parsed
\* chart, even an empty one, and sets depth_chart_cache_time to the time read
\* at the start of the call; and every call made while the cache is empty
\* attempts a new HTTP fetch regardless of the cache age.
C29_EveryFetchReplacesCache ==
    /\ (cpc = "done" /\ cfetches = 1 /\ cbefore.got \in {"parsed", "empty"}) =>
           CacheReplaced
    /\ EmptyCacheFetches

\* C29 amended: every fetch_depth_chart call whose HTTP fetch returns a body
\* that is not empty and whose parse does not raise replaces depth_chart_cache
\* with the newly parsed chart, even an empty one, and sets
\* depth_chart_cache_time to the time read at the start of the call (a fetch
\* that returns an empty body leaves the cache and its timestamp as they
\* were); and every call made while the cache is empty attempts a new HTTP
\* fetch regardless of the cache age.
C29_ParsedChartReplacesCache ==
    /\ (cpc = "done" /\ cfetches = 1 /\ cbefore.got = "parsed") => CacheReplaced
    /\ (cpc = "done" /\ cfetches = 1 /\ cbefore.got = "empty") => CacheUntouched
    /\ EmptyCacheFetches

\* a cache that held Team1 is replaced by the empty chart parsed from a page;
\* the next call, made at once, fetches again
C29_Witness ==
    /\ cpc = "done"
    /\ cfetches = 1
    /\ cbefore.got = "parsed"
    /\ cbefore.cache = Team1Chart
    /\ ~DictTruthy(depth_chart_cache)
    /\ depth_chart_cache_time = ctime

(***************************************************************************)
(* The records of web_scraper.InjuryReportParser.                          *)
(***************************************************************************)
\* item has a non-empty player, and each further field only after the fields
\* before it in the order player, position, status, team
WellFormedItem(item) ==
    /\ "player" \in DOMAIN item
    /\ item["player"] # <<>>
    /\ DOMAIN item \subseteq {InjuryFields[i] : i \in 1..Len(InjuryFields)}
    /\ \A i \in 2..Len(InjuryFields) :
           InjuryFields[i] \in DOMAIN item => InjuryFields[i - 1] \in DOMAIN item

\* the step feeds event e to the injury parser
InjuryEventStep == ifed' = ifed + 1

\* C30: every record of injuries has a non-empty player, and has a position, a
\* status or a team only if it has all the fields before it in the order
\* player, position, status, team: a text fills the first field that is not
\* set and never overwrites a set field; no text (inside or outside an injury
\* section) and no opening tag (that of a nested matching tr or div, which
\* discards the item being built, included) adds a record, and a text outside a
\* section changes nothing of the item.
C30_InjuryFieldOrder ==
    /\ [](\A i \in 1..Len(iparser.injuries) : WellFormedItem(iparser.injuries[i]))
    /\ [][ InjuryEventStep =>
             LET e == ilast'[1]
                 item == iparser.current_item
             IN  /\ e.type \in {"data", "start"} => iparser'.injuries = iparser.injuries
                 /\ SubSeq(iparser'.injuries, 1, Len(iparser.injuries)) = iparser.injuries
                 /\ (e.type = "data" /\ ~iparser.in_injury_section) =>
                        iparser' = iparser
                 /\ e.type = "data" =>
                        /\ \A k \in DOMAIN item :
                               k \in DOMAIN iparser'.current_item
                                 /\ iparser'.current_item[k] = item[k]
                        /\ Cardinality(DOMAIN iparser'.current_item)
                             <= Cardinality(DOMAIN item) + 1
                        /\ \A k \in DOMAIN iparser'.current_item \ DOMAIN item :
                               iparser'.current_item[k] = Strip(e.data)
                 /\ (e \in {IOpenRow, IOpenPlayerDiv}) =>
                        /\ iparser'.in_injury_section
                        /\ ~DictTruthy(iparser'.current_item)
         ]_vars

\* <tr class='injury-row'><td>, four texts, a fifth, </tr>: one full record
C30_Witness ==
    /\ ifed = 8
    /\ ilast = Some(ICloseTr)
    /\ Len(iparser.injuries) = 1
    /\ DOMAIN iparser.injuries[1] = {"player", "position", "status", "team"}
    /\ iparser.injuries[1]["player"] = <<"J","o">>
    /\ iparser.injuries[1]["team"] = <<"Q","B">>

====
